---- MODULE Spec2Model ----
(***************************************************************************)
(* Verification model of the SV30 settling-test system.                    *)
(*                                                                         *)
(* Twelve state machines share this module, one specification each:        *)
(*   SpecPipe  the orchestrator of sv30_pipeline/main.py (boot gate, mode  *)
(*             selection, the stage sequence of run_capture_only and       *)
(*             run_full_pipeline, the metrics file it reads back);         *)
(*   SpecRec   the recorder of modules/video_capture.py (VideoRecorder:    *)
(*             record_with_retry, record_video_usb, record_video_rtsp);    *)
(*   SpecHmi   the operator-facing test state machine of src/src and the   *)
(*             pipeline subprocesses it launches;                          *)
(*   SpecApi   the Flask application of src/src (start requests, abort,    *)
(*             reset, result requests, the monitor thread and the worker   *)
(*             threads) on the same test state machine;                    *)
(*   SpecDet   the per-frame loop of modules/sludge_detect.py (outlier     *)
(*             rejection, trimmed averaging, the stored measurement);      *)
(*   SpecScan  one scan line of top_down_scan_in_top_50 of the same module;*)
(*   SpecMet   the SV30 arithmetic of modules/calculate_metrics.py and of  *)
(*             the test service that reads a result back;                  *)
(*   SpecCrop  the crop of modules/preprocess.py over a batch of frames;   *)
(*   SpecExt   the frame extraction of modules/frame_extractor.py;         *)
(*   SpecArc   the archiving of modules/archiver.py across runs, with the  *)
(*             folders sv30config creates and the upload marker;           *)
(*   SpecSend  the backend sender of src/src/services/backend_client.py;   *)
(*   SpecProv  the t=0 / t=30 data provider of sv30_data_provider.py and   *)
(*             the pipeline subprocess whose results it reads.             *)
(* SpecRecLive, SpecApiLive and SpecExtLive add the fairness of the        *)
(* recorder's loop, of the clock and the monitor, and of the extraction.   *)
(* A specification leaves the variables of the other machines unchanged.   *)
(***************************************************************************)
EXTENDS Integers, Sequences, FiniteSets, TLC

VARIABLES
    \* ---- orchestrator (sv30_pipeline/main.py) ----
    cfg,              \* the sv30config flags main.py imports, fixed for a device
    pc,               \* position of the orchestrator process
    runId,            \* number of the current (or last) invocation of main.py
    bootMarker,       \* BOOT_MARKER_FILE exists (in /tmp, gone after a reboot)
    succeededThisBoot,\* an invocation returned True in this boot cycle
    executed,         \* stages the current invocation has called, in order
    camCheck,         \* outcome of check_camera_connectivity in this invocation
    frame_count,      \* count returned by extract_frames_from_video (-1: not run)
    resultsJson,      \* results/sv30_metrics.json: the run that wrote each record
    appended,         \* records metrics_batch appended in this invocation
    socketio_client,  \* connect_socketio returned a client
    rgb,              \* what get_rgb_results returned: "unset", "None" or "data"
    payload,          \* the result payload: [run, src] or NoPayload
    reported,         \* payloads this invocation handed to dashboard / registers
    warned,           \* message of the last send_test_warning on the run's connection
    exitStatus,       \* how the last invocation ended
    preprocessed,     \* frames preprocess_batch wrote to PREPROCESSED_FOLDER (-1: not run)
    mask,             \* mask_batch in this invocation: "none", "no_frames", "raised", "derived"
    rembg_calls,      \* calls of create_beaker_mask in this invocation
    uploader,         \* AWSUploader() in this invocation: "none", "ok", "init_failed", "unset"
    \* ---- recorder (modules/video_capture.py) ----
    CAM1_TYPE,        \* sv30config.CAM1_TYPE: "USB" or "RTSP"
    rpc,              \* position of the recorder inside record_with_retry
    running,          \* VideoRecorder.running
    cam2_t1_captured, \* VideoRecorder.cam2_t1_captured
    cam2_t2_captured, \* VideoRecorder.cam2_t2_captured
    saved,            \* labels for which capture_cam2_snapshot returned True
    now,              \* time.time() - start_time, in ticks
    total_recorded,   \* record_with_retry: total_recorded
    attempt,          \* record_with_retry: attempt
    attemptAt,        \* elapsed_total when the latest attempt began (-1: none)
    remaining,        \* record_with_retry: remaining, asked of the latest attempt (-1: none)
    video_path,       \* record_with_retry: video_path is not None
    cap,              \* cv2.VideoCapture of camera 1: "none", "open", "released"
    frames_written,   \* ticks of frames record_video_usb wrote to the file
    actual_duration,  \* record_video_usb: actual_duration
    result,           \* success returned by record_with_retry ("pending" before)
    \* ---- operator state machine and its subprocesses (src/src) ----
    test_state,       \* TestStateManager._state
    hpc,              \* position of the start request being served ("none": no request)
    procs,            \* phase of each main.py subprocess launched so far
    \* ---- the Flask application (src/src/app.py, api/routes.py) ----
    req,              \* position of each POST /api/test/start being served
    elapsed,          \* time.time() - _test_start_time in ticks (-1: _test_start_time is None)
    test_data,        \* keys of TestStateManager._test_data
    height_history,   \* len(TestStateManager._height_history)
    started,          \* requests whose start_test() returned True since the state was last IDLE
    t30_thread,       \* tests whose generate_and_send_t30 thread is started and has not run yet
    mon,              \* monitor_test: asleep, or between is_test_complete and complete_test
    updater,          \* per start request: position of its send_periodic_updates thread ("none": no thread)
    height_by,        \* tests whose updater wrote an entry of _height_history
    t30_by,           \* tests whose t30 generation wrote _test_data["t30_data"]
    t30_sends,        \* times the t=30 data of the test in the record was handed to the sender
    completed_event,  \* test_completed was emitted since the record was last emptied
    \* ---- interface detection (modules/sludge_detect.py, process_all) ----
    dpc,              \* position inside the per-frame loop of process_all
    frame_index,      \* i, the frame being processed
    mixture_top_y,    \* row of the mixture top, detected once from the second frame
    image_h,          \* h, the height of the frame
    red_dots,         \* y of the candidates the scan found, in scan-line order
    valid_dots,       \* y of the candidates left by reject_outliers
    dots_used,        \* y of the candidates average_6_closest averaged
    final_sludge_y,   \* final_sludge_y of the current frame (-1: not set)
    sv30_pct,         \* sv30_pct of the current frame, as a fraction num / den of 100
    frame_result,     \* the record appended to results for the current frame
    results,          \* process_all: results, each record by its frame_index
    processed,        \* process_all: processed
    errors,           \* process_all: errors
    \* ---- one scan line (modules/sludge_detect.py, top_down_scan_in_top_50) ----
    column,           \* binary_image[:, x]: the pixels of the scan line, row 0 first
    scan_top,         \* mixture_top_y handed to the scan
    scan_y,           \* y of the inner loop
    line_dots,        \* rows appended to red_dots for this line
    spc,              \* position of the scan of this line
    \* ---- SV30 arithmetic (sludge_detect.calculate_sv30, calculate_metrics.py,
    \*      TestService.get_test_result) ----
    metrics_top_y,    \* mixture_top_y the calculation is given
    image_height_px,  \* height of the image
    interface_y,      \* sludge interface row (of the last frame)
    met_call,         \* the function applied to these inputs ("none": not yet)
    met_out,          \* what it returned, or that it raised
    \* ---- preprocessing (modules/preprocess.py, run_batch) ----
    img_w,            \* w of the extracted frames
    img_h,            \* h of the extracted frames
    raw_files,        \* image files of RAW_FOLDER the loop has still to go through
    processed_count,  \* run_batch: processed_count
    error_count,      \* run_batch: error_count
    cpc,              \* position: in the loop, returned to main.py, in mask_batch
    \* ---- frame extraction (modules/frame_extractor.py) ----
    total_frames,     \* frames the video holds (0: the file cannot be used)
    frame_interval,   \* int(fps * interval_sec)
    frame_number,     \* position the loop seeks to
    ext_count,        \* count: frames written so far
    failed_count,     \* frames cv2.imwrite refused
    ext_written,      \* files written: the index in the name and the frame shown
    extracted,        \* what extract_frames_from_video returned
    epc,              \* position of the extraction
    \* ---- archiving across runs (modules/archiver.py, aws_uploader.py) ----
    DEV_MODE,         \* sv30config.DEV_MODE of the device
    live,             \* entries of UPLOAD_RAW_FOLDER, RESULTS_FOLDER and GRAPHS_FOLDER
    archive,          \* entries of the archive folder this run created
    prior,            \* the live entries as archive_old_data found them
    archived,         \* what archive_old_data returned
    warning_needed,   \* upload_status['warning_needed'] of this run
    warning_sent,     \* this run sent "... test data not uploaded" to the dashboard
    marker_written,   \* the latest upload_test_data wrote the .uploaded marker
    uploads,          \* upload_summary of the latest upload_test_data: [attempted, failed]
    arc_runs,         \* runs of main.py on the device so far
    apc,              \* position of the current run
    \* ---- backend sender (src/src/services/backend_client.py) ----
    sio_connected,    \* BackendSender.connected
    backend_up,       \* the backend accepts connections
    handed,           \* items handed to the sender so far, by kind
    send_log,         \* what the sender did with them, in order: [item, ev]
    \* ---- t=30 results (src/src/services/sv30_data_provider.py) ----
    cleans_results,   \* the run's archiver empties results/ (ARCHIVE_ENABLED, not DEV_MODE)
    current_test,     \* tests generate_t0_data has started so far
    results_owner,    \* test whose run wrote results/final_metrics.json (0: no file)
    sub_pc,           \* position of the pipeline subprocess of the current test
    t30_source,       \* per test: owner of the file generate_t30_data returned (0: raised)
    prov_pc           \* position of the provider

pipeVars == <<cfg, pc, runId, bootMarker, succeededThisBoot, executed,
              camCheck, frame_count, resultsJson, appended, socketio_client,
              rgb, payload, reported, warned, exitStatus,
              preprocessed, mask, rembg_calls, uploader>>
\* what the stages other than preprocessing, masking and uploading leave alone
stageVars == <<preprocessed, mask, rembg_calls, uploader>>
recVars == <<CAM1_TYPE, rpc, running, cam2_t1_captured, cam2_t2_captured, saved,
             now, total_recorded, attempt, attemptAt, remaining, video_path, cap,
             frames_written, actual_duration, result>>
hmiVars == <<test_state, hpc, procs>>
apiVars == <<req, elapsed, test_data, height_history, started, t30_thread,
             mon, updater, height_by, t30_by, t30_sends, completed_event>>
\* what the steps of a start request and of time leave alone
threadVars == <<mon, height_by, t30_by, t30_sends, completed_event>>
detVars == <<dpc, frame_index, mixture_top_y, image_h, red_dots, valid_dots,
             dots_used, final_sludge_y, sv30_pct, frame_result, results,
             processed, errors>>
scanVars == <<column, scan_top, scan_y, line_dots, spc>>
metVars == <<metrics_top_y, image_height_px, interface_y, met_call, met_out>>
cropVars == <<img_w, img_h, raw_files, processed_count, error_count, cpc>>
provVars == <<cleans_results, current_test, results_owner, sub_pc, t30_source, prov_pc>>
sendVars == <<sio_connected, backend_up, handed, send_log>>
arcVars == <<DEV_MODE, live, archive, prior, archived, warning_needed,
             warning_sent, marker_written, uploads, arc_runs, apc>>
extVars == <<total_frames, frame_interval, frame_number, ext_count, failed_count,
             ext_written, extracted, epc>>
vars == <<pipeVars, recVars, hmiVars, apiVars, detVars, scanVars, metVars, cropVars, extVars, arcVars, sendVars, provVars>>
\* what an orchestrator step leaves alone
notPipe == <<recVars, hmiVars, apiVars, detVars, scanVars, metVars, cropVars, extVars, arcVars, sendVars, provVars>>
\* what a recorder step leaves alone
notRec == <<pipeVars, hmiVars, apiVars, detVars, scanVars, metVars, cropVars, extVars, arcVars, sendVars, provVars>>
\* what a step of the interface detection leaves alone
notDet == <<pipeVars, recVars, hmiVars, apiVars, scanVars, metVars, cropVars, extVars, arcVars, sendVars, provVars>>
\* what a step of the scan of one line leaves alone
notScan == <<pipeVars, recVars, hmiVars, apiVars, detVars, metVars, cropVars, extVars, arcVars, sendVars, provVars>>
\* what a step of the SV30 arithmetic leaves alone
notMet == <<pipeVars, recVars, hmiVars, apiVars, detVars, scanVars, cropVars, extVars, arcVars, sendVars, provVars>>
\* what a step of the preprocessing leaves alone
notCrop == <<pipeVars, recVars, hmiVars, apiVars, detVars, scanVars, metVars, extVars, arcVars, sendVars, provVars>>
\* what a step of the frame extraction leaves alone
notExt == <<pipeVars, recVars, hmiVars, apiVars, detVars, scanVars, metVars, cropVars, arcVars, sendVars, provVars>>
\* what a step of the archiving leaves alone
notArc == <<pipeVars, recVars, hmiVars, apiVars, detVars, scanVars, metVars, cropVars, extVars, sendVars, provVars>>
\* what a step of the backend sender leaves alone
notSend == <<pipeVars, recVars, hmiVars, apiVars, detVars, scanVars, metVars, cropVars, extVars, arcVars, provVars>>
\* what a step of the data provider or its subprocess leaves alone
notProv == <<pipeVars, recVars, hmiVars, apiVars, detVars, scanVars, metVars, cropVars, extVars, arcVars, sendVars>>
\* what a step of the Flask application leaves alone: all but the state of the
\* TestStateManager it shares with the operator machine
notApi == <<pipeVars, recVars, hpc, procs, detVars, scanVars, metVars, cropVars, extVars, arcVars, sendVars, provVars>>
\* what a step of the operator machine or of a subprocess leaves alone: all but
\* the boot marker file, which every main.py process shares
notHmi == <<cfg, pc, runId, succeededThisBoot, executed, camCheck, frame_count,
            resultsJson, appended, socketio_client, rgb, payload, reported, warned,
            exitStatus, stageVars, recVars, apiVars, detVars, scanVars, metVars, cropVars, extVars, arcVars, sendVars, provVars>>

(***************************************************************************)
(* Bounds of the model.                                                    *)
(***************************************************************************)
MaxRuns == 2        \* invocations of main.py explored
MaxFrames == 2      \* frames a video yields at most
MaxRecords == 2     \* records one metrics stage appends at most
\* Recorder times are counted in ticks; the configured durations are scaled
\* down, keeping their order: t1 < t2 < target, buffer > 0.
VIDEO_DURATION_SEC == 4   \* sv30config.VIDEO_DURATION_SEC, in ticks
VIDEO_BUFFER_SEC == 2     \* sv30config.VIDEO_BUFFER_SEC, in ticks
t1_snapshot_sec == 1      \* CAM2_SNAPSHOT_T1_MIN * 60, in ticks
t2_snapshot_sec == 3      \* CAM2_SNAPSHOT_T2_MIN * 60, in ticks
RetrySleepPartial == 1    \* time.sleep(2) after a partial recording, in ticks
RetrySleepFailed == 2     \* time.sleep(10) after a failed attempt, in ticks
FfmpegTimeoutExtra == 1   \* the 60 s ffmpeg may run beyond the asked duration, in ticks
MaxStep == 2              \* longest time between two observations of the USB loop
MaxProcs == 3             \* main.py subprocesses the operator machine launches at most
MaxRequests == 2          \* POST /api/test/start requests served concurrently
TEST_DURATION_MINUTES == 2 \* Config.TEST_DURATION_MINUTES, in ticks
MaxHistory == 2           \* height entries the periodic-update thread stores at most
MaxDots == 9              \* candidates one frame's scan yields at most
MaxDetectFrames == 2      \* frames process_all of the interface detection goes through
MaxTests == 3             \* tests the data provider is followed through
MaxSends == 3             \* items handed to the backend sender
MaxArcRuns == 2           \* runs of main.py the archiving is followed through
MaxVideoFrames == 5       \* frames of the recorded video
MaxInterval == 2          \* frame_interval of the extraction at most
MaxFiles == 3             \* frames in RAW_FOLDER when preprocessing starts
MaxRow == 8               \* rows of the small images the SV30 arithmetic is applied to
ImageRows == 12           \* h of the binary image a line is scanned in

NoPayload == [run |-> 0, src |-> 0]

(***************************************************************************)
(* Configuration (sv30config.py).  main.py reads these at import.          *)
(***************************************************************************)
ConfigFlags == {"CAMERA_CHECK_ENABLED", "ARCHIVE_ENABLED", "RUN_ONCE_PER_BOOT",
                "CAPTURE_ONLY_MODE", "DEV_MODE", "SOCKETIO_ENABLED",
                "AWS_ENABLED", "MODBUS_ENABLED"}
Configs == [ConfigFlags -> BOOLEAN]

\* Stage names, after the callables of main.py.
AnalysisStages == {"preprocess_batch", "mask_batch", "otsu_binary", "sludge_mask_batch",
                   "geometry_batch", "metrics_batch"}

(***************************************************************************)
(* Orchestrator: sv30_pipeline/main.py                                     *)
(***************************************************************************)
InitPipe ==
    /\ cfg \in Configs
    /\ pc = "idle"
    /\ runId = 0
    /\ bootMarker = FALSE
    /\ succeededThisBoot = FALSE
    /\ executed = <<>>
    /\ camCheck = "none"
    /\ frame_count = -1
    /\ resultsJson = <<>>
    /\ appended = 0
    /\ socketio_client = FALSE
    /\ rgb = "unset"
    /\ payload = NoPayload
    /\ reported = {}
    /\ warned = "none"
    /\ exitStatus = "none"
    /\ preprocessed = -1
    /\ mask = "none"
    /\ rembg_calls = 0
    /\ uploader = "none"

\* check_boot_marker(): True when the gate is on and the marker file exists.
check_boot_marker == cfg["RUN_ONCE_PER_BOOT"] /\ bootMarker

\* (mutant) the marker is never written
create_boot_marker_Never == bootMarker

\* create_boot_marker(): the marker file's existence afterwards.
create_boot_marker == IF cfg["RUN_ONCE_PER_BOOT"] THEN TRUE ELSE bootMarker

\* (mutant) the mode flag is ignored
ModeEntry_AlwaysFull == "full_camera_check"

\* __main__: which mode function runs.
ModeEntry == IF cfg["CAPTURE_ONLY_MODE"] THEN "cap_connect" ELSE "full_camera_check"

\* (mutant) a failed camera check does not stop the run
AfterCameraCheck_NoReturn(cam1_ok, cam2_ok) == "full_archive"

\* run_full_pipeline after check_camera_connectivity(): both cameras or return False.
AfterCameraCheck(cam1_ok, cam2_ok) ==
    IF ~(cam1_ok /\ cam2_ok) THEN "return_false" ELSE "full_archive"

\* extract_frames_from_video: success is count > 0.
ExtractSuccess(count) == count # 0

\* run_full_pipeline after extract_frames_from_video(): no success, return False.
AfterExtract(success) == IF ~success THEN "return_false" ELSE "full_preprocess"

\* get_final_metrics(): None (0) without a readable, non-empty file, else data[-1].
get_final_metrics ==
    IF resultsJson = <<>> THEN 0 ELSE resultsJson[Len(resultsJson)]

\* run_full_pipeline after get_final_metrics(): None, return False.
AfterGetResults(metrics) == IF metrics = 0 THEN "return_false" ELSE "full_send_dashboard"

\* How a mode function or __main__ leaves.
Goto(next) ==
    /\ pc' = next
    /\ UNCHANGED <<exitStatus, bootMarker, succeededThisBoot>>
ReturnFalse ==
    /\ pc' = "idle"
    /\ exitStatus' = "failed"
    /\ UNCHANGED <<bootMarker, succeededThisBoot>>
\* an exception escaping the mode function: __main__'s except Exception tries
\* to connect to the dashboard and to send a warning, then exit(1)
Crash ==
    /\ pc' = "idle"
    /\ exitStatus' = "crashed"
    /\ \E connected \in BOOLEAN :
         warned' = IF cfg["SOCKETIO_ENABLED"] /\ connected
                     THEN "Pipeline crashed with unexpected error" ELSE warned
    /\ UNCHANGED <<bootMarker, succeededThisBoot>>
ReturnTrue ==
    /\ pc' = "idle"
    /\ exitStatus' = "done"
    /\ bootMarker' = create_boot_marker
    /\ succeededThisBoot' = TRUE
Step(next) == IF next = "return_false" THEN ReturnFalse ELSE Goto(next)

Call(stage) == executed' = Append(executed, stage)

\* A new process `python main.py` starts.
Invoke ==
    /\ pc = "idle"
    /\ runId < MaxRuns
    /\ runId' = runId + 1
    /\ pc' = "main"
    /\ executed' = <<>>
    /\ camCheck' = "none"
    /\ frame_count' = -1
    /\ appended' = 0
    /\ socketio_client' = FALSE
    /\ rgb' = "unset"
    /\ payload' = NoPayload
    /\ warned' = "none"
    /\ exitStatus' = "running"
    /\ preprocessed' = -1
    /\ mask' = "none"
    /\ rembg_calls' = 0
    /\ uploader' = "none"
    /\ UNCHANGED notPipe
    /\ reported' = {}
    /\ UNCHANGED <<cfg, bootMarker, succeededThisBoot, resultsJson>>

\* The device restarts: /tmp is emptied, the pipeline folders persist.
Reboot ==
    /\ pc = "idle"
    /\ bootMarker' = FALSE
    /\ succeededThisBoot' = FALSE
    /\ UNCHANGED notPipe
    /\ UNCHANGED stageVars
    /\ UNCHANGED <<cfg, pc, runId, executed, camCheck, frame_count, resultsJson,
                   appended, socketio_client, rgb, payload, reported, warned, exitStatus>>

\* __main__: boot gate, then the mode function.
Main ==
    /\ pc = "main"
    /\ IF check_boot_marker
          THEN /\ pc' = "idle"
               /\ exitStatus' = "skipped"
          ELSE /\ pc' = ModeEntry
               /\ UNCHANGED exitStatus
    /\ UNCHANGED notPipe
    /\ UNCHANGED stageVars
    /\ UNCHANGED <<cfg, runId, bootMarker, succeededThisBoot, executed, camCheck,
                   frame_count, resultsJson, appended, socketio_client, rgb, payload,
                   reported, warned>>

(***************************************************************************)
(* run_full_pipeline(), one action per stage call.                         *)
(***************************************************************************)
\* Camera check (main.py 259-265).
FullCameraCheck ==
    /\ pc = "full_camera_check"
    /\ IF cfg["CAMERA_CHECK_ENABLED"]
          THEN \E cam1_ok, cam2_ok \in BOOLEAN :
                 /\ Call("camera_check")
                 /\ camCheck' = IF cam1_ok /\ cam2_ok THEN "ok" ELSE "failed"
                 /\ Step(AfterCameraCheck(cam1_ok, cam2_ok))
          ELSE /\ Goto("full_archive")
               /\ UNCHANGED <<executed, camCheck>>
    /\ UNCHANGED notPipe
    /\ UNCHANGED stageVars
    /\ UNCHANGED <<cfg, runId, frame_count, resultsJson, appended,
                   socketio_client, rgb, payload, reported, warned>>

\* archive_old_data(): copies the run folders to the archive; outside DEV_MODE
\* it then empties them (results/ among them).  A failed copy cleans nothing.
ArchivedResults(copied) ==
    IF copied /\ ~cfg["DEV_MODE"] THEN <<>> ELSE resultsJson

\* Archive old data (main.py 267-285).  The warning about the previous upload,
\* sent over a connection of its own that is closed again, is followed in SpecArc.
FullArchive ==
    /\ pc = "full_archive"
    /\ IF cfg["ARCHIVE_ENABLED"]
          THEN \E copied \in BOOLEAN :
                 /\ Call("archive")
                 /\ resultsJson' = ArchivedResults(copied)
          ELSE UNCHANGED <<executed, resultsJson>>
    /\ Goto("full_connect")
    /\ UNCHANGED notPipe
    /\ UNCHANGED stageVars
    /\ UNCHANGED <<cfg, runId, camCheck, frame_count, appended,
                   socketio_client, rgb, payload, reported, warned>>

\* Start Modbus, connect to the dashboard, send test start (main.py 287-305).
FullConnect ==
    /\ pc = "full_connect"
    /\ \E connected \in BOOLEAN :
         socketio_client' = (cfg["SOCKETIO_ENABLED"] /\ connected)
    /\ Goto("full_capture")
    /\ UNCHANGED notPipe
    /\ UNCHANGED stageVars
    /\ UNCHANGED <<cfg, runId, executed, camCheck, frame_count, resultsJson,
                   appended, rgb, payload, reported, warned>>

\* Capture video (main.py 307-315).
FullCapture ==
    /\ pc = "full_capture"
    /\ Call("capture")
    /\ \E success \in BOOLEAN :
         IF ~success
           THEN /\ warned' = IF cfg["SOCKETIO_ENABLED"] /\ socketio_client
                               THEN "Video capture failed" ELSE warned
                /\ ReturnFalse
           ELSE /\ Goto("full_extract")
                /\ UNCHANGED warned
    /\ UNCHANGED notPipe
    /\ UNCHANGED stageVars
    /\ UNCHANGED <<cfg, runId, camCheck, frame_count, resultsJson, appended,
                   socketio_client, rgb, payload, reported>>

\* Extract frames (main.py 317-322).
FullExtract ==
    /\ pc = "full_extract"
    /\ Call("extract")
    /\ \E count \in 0..MaxFrames :
         /\ frame_count' = count
         /\ Step(AfterExtract(ExtractSuccess(count)))
    /\ UNCHANGED notPipe
    /\ UNCHANGED stageVars
    /\ UNCHANGED <<cfg, runId, camCheck, resultsJson, appended,
                   socketio_client, rgb, payload, reported, warned>>

\* A stage whose return value run_full_pipeline ignores and that changes none of
\* the state modelled here.
PlainStage(at, stage, next) ==
    /\ pc = at
    /\ Call(stage)
    /\ Goto(next)
    /\ UNCHANGED notPipe
    /\ UNCHANGED stageVars
    /\ UNCHANGED <<cfg, runId, camCheck, frame_count, resultsJson, appended,
                   socketio_client, rgb, payload, reported, warned>>

\* preprocess_batch() (main.py 325-326).
\* preprocess_batch() (main.py 325-326): run_batch crops each extracted frame;
\* a frame whose crop fails is logged and left out.
FullPreprocess ==
    /\ pc = "full_preprocess"
    /\ Call("preprocess_batch")
    /\ \E written \in 0..frame_count : preprocessed' = written
    /\ Goto("full_mask")
    /\ UNCHANGED notPipe
    /\ UNCHANGED <<mask, rembg_calls, uploader>>
    /\ UNCHANGED <<cfg, runId, camCheck, frame_count, resultsJson, appended,
                   socketio_client, rgb, payload, reported, warned>>

\* (mutant) the mask is derived anew for every frame
MaskDerivations_PerFrame(frames) == frames

\* mask_beaker.process_all: create_beaker_mask is called for one frame (the
\* second, or the only one), whatever the number of frames.
MaskDerivations(frames) == 1

\* mask_batch() (main.py 328-329).  Without a preprocessed frame process_all
\* logs and returns, and its return value is ignored.  create_beaker_mask is
\* called outside any try, so an error of the segmentation escapes
\* run_full_pipeline.
FullMask ==
    /\ pc = "full_mask"
    /\ Call("mask_batch")
    /\ IF preprocessed = 0
         THEN /\ mask' = "no_frames"
              /\ Goto("full_sludge")
              /\ UNCHANGED <<rembg_calls, warned>>
         ELSE /\ rembg_calls' = rembg_calls + MaskDerivations(preprocessed)
              /\ \E raised \in BOOLEAN :
                   IF raised
                     THEN mask' = "raised" /\ Crash
                     ELSE mask' = "derived" /\ Goto("full_sludge") /\ UNCHANGED warned
    /\ UNCHANGED notPipe
    /\ UNCHANGED <<preprocessed, uploader>>
    /\ UNCHANGED <<cfg, runId, camCheck, frame_count, resultsJson, appended,
                   socketio_client, rgb, payload, reported>>

\* sludge_mask_batch() (main.py 331-332).
FullSludge == PlainStage("full_sludge", "sludge_mask_batch", "full_geometry")

\* geometry_batch() (main.py 334-335).
FullGeometry == PlainStage("full_geometry", "geometry_batch", "full_metrics")

\* append_json(record) for each frame that yields a measurement: the records are
\* appended to whatever the file already holds.
append_json(data, n) == data \o [i \in 1..n |-> runId]

\* metrics_batch() (main.py 338-339): n frames yield a record; n = 0 when there
\* is no frame or every frame is skipped.  An error outside its per-frame
\* handling (a zero mixture height, an unreadable shape) escapes.
FullMetrics ==
    /\ pc = "full_metrics"
    /\ Call("metrics_batch")
    /\ \E n \in 0..MaxRecords, raised \in BOOLEAN :
         /\ appended' = n
         /\ resultsJson' = append_json(resultsJson, n)
         /\ IF raised THEN Crash ELSE Goto("full_rgb") /\ UNCHANGED warned
    /\ UNCHANGED notPipe
    /\ UNCHANGED stageVars
    /\ UNCHANGED <<cfg, runId, camCheck, frame_count,
                   socketio_client, rgb, payload, reported>>

\* run_rgb_analysis() (main.py 342-343).
FullRgb == PlainStage("full_rgb", "run_rgb_analysis", "full_graphs")

\* generate_graphs() (main.py 346-347).
FullGraphs == PlainStage("full_graphs", "generate_graphs", "full_get_results")

\* Get results and build the payload (main.py 349-364).
FullGetResults ==
    /\ pc = "full_get_results"
    /\ \E r \in {"None", "data"} : rgb' = r
    /\ LET metrics == get_final_metrics IN
         /\ payload' = IF AfterGetResults(metrics) = "return_false"
                          THEN payload ELSE [run |-> runId, src |-> metrics]
         /\ Step(AfterGetResults(metrics))
    /\ UNCHANGED notPipe
    /\ UNCHANGED stageVars
    /\ UNCHANGED <<cfg, runId, executed, camCheck, frame_count, resultsJson,
                   appended, socketio_client, reported, warned>>

\* Send to dashboard (main.py 366-378): rgb.get(...) on a missing rgb raises.
FullSendDashboard ==
    /\ pc = "full_send_dashboard"
    /\ IF cfg["SOCKETIO_ENABLED"] /\ socketio_client
          THEN IF rgb = "None"
                 THEN /\ Crash
                      /\ UNCHANGED <<executed, reported>>
                 ELSE /\ Call("send_dashboard")
                      /\ reported' = reported \cup
                             {[via |-> "dashboard", run |-> payload.run, src |-> payload.src]}
                      /\ Goto("full_upload")
                      /\ UNCHANGED warned
          ELSE /\ Goto("full_upload")
               /\ UNCHANGED <<executed, reported, warned>>
    /\ UNCHANGED notPipe
    /\ UNCHANGED stageVars
    /\ UNCHANGED <<cfg, runId, camCheck, frame_count, resultsJson, appended,
                   socketio_client, rgb, payload>>

\* upload_test_data(): AWSUploader() leaves `initialized` True ("ok"), False
\* ("init_failed": a warning is sent and (False, ...) returned) or unset (no
\* credentials configured: reading the attribute raises).  The callers have no
\* try around the call.
upload_test_data(next) ==
    /\ Call("upload")
    /\ \E u \in {"ok", "init_failed", "unset"} :
         /\ uploader' = u
         /\ IF u = "unset"
              THEN Crash
              ELSE /\ Goto(next)
                   /\ warned' = IF u = "init_failed" /\ socketio_client
                                   THEN "AWS S3 upload initialization failed"
                                   ELSE warned

\* Upload to AWS (main.py 380-393).
FullUpload ==
    /\ pc = "full_upload"
    /\ IF cfg["AWS_ENABLED"]
          THEN upload_test_data("full_modbus")
          ELSE Goto("full_modbus") /\ UNCHANGED <<executed, uploader, warned>>
    /\ UNCHANGED notPipe
    /\ UNCHANGED <<preprocessed, mask, rembg_calls>>
    /\ UNCHANGED <<cfg, runId, camCheck, frame_count, resultsJson, appended,
                   socketio_client, rgb, payload, reported>>

\* Push to Modbus (main.py 395-397): push_results_to_modbus(payload).
FullModbus ==
    /\ pc = "full_modbus"
    /\ IF cfg["MODBUS_ENABLED"]
          THEN /\ Call("modbus")
               /\ reported' = reported \cup
                      {[via |-> "registers", run |-> payload.run, src |-> payload.src]}
          ELSE UNCHANGED <<executed, reported>>
    /\ Goto("full_finish")
    /\ UNCHANGED notPipe
    /\ UNCHANGED stageVars
    /\ UNCHANGED <<cfg, runId, camCheck, frame_count, resultsJson, appended,
                   socketio_client, rgb, payload, warned>>

\* Disconnect, create the boot marker, return True (main.py 409-416).
FullFinish ==
    /\ pc = "full_finish"
    /\ socketio_client' = FALSE
    /\ ReturnTrue
    /\ UNCHANGED notPipe
    /\ UNCHANGED stageVars
    /\ UNCHANGED <<cfg, runId, executed, camCheck, frame_count, resultsJson,
                   appended, rgb, payload, reported, warned>>

(***************************************************************************)
(* run_capture_only()                                                      *)
(***************************************************************************)
\* Connect to the dashboard, send test start (main.py 157-170).
CapConnect ==
    /\ pc = "cap_connect"
    /\ \E connected \in BOOLEAN :
         socketio_client' = (cfg["SOCKETIO_ENABLED"] /\ connected)
    /\ Goto("cap_capture")
    /\ UNCHANGED notPipe
    /\ UNCHANGED stageVars
    /\ UNCHANGED <<cfg, runId, executed, camCheck, frame_count, resultsJson,
                   appended, rgb, payload, reported, warned>>

\* Capture video + snapshots (main.py 172-192).
CapCapture ==
    /\ pc = "cap_capture"
    /\ Call("capture")
    /\ \E success \in BOOLEAN :
         IF ~success
           THEN /\ warned' = IF cfg["SOCKETIO_ENABLED"] /\ socketio_client
                               THEN "Video capture failed in CAPTURE_ONLY mode"
                               ELSE warned
                /\ ReturnFalse
           ELSE /\ Goto("cap_upload")
                /\ UNCHANGED warned
    /\ UNCHANGED notPipe
    /\ UNCHANGED stageVars
    /\ UNCHANGED <<cfg, runId, camCheck, frame_count, resultsJson, appended,
                   socketio_client, rgb, payload, reported>>

\* Upload the raw video and snapshots (main.py 194-212).
CapUpload ==
    /\ pc = "cap_upload"
    /\ IF cfg["AWS_ENABLED"]
          THEN upload_test_data("cap_finish")
          ELSE Goto("cap_finish") /\ UNCHANGED <<executed, uploader, warned>>
    /\ UNCHANGED notPipe
    /\ UNCHANGED <<preprocessed, mask, rembg_calls>>
    /\ UNCHANGED <<cfg, runId, camCheck, frame_count, resultsJson, appended,
                   socketio_client, rgb, payload, reported>>

\* Disconnect, create the boot marker, return True (main.py 214-229).
CapFinish ==
    /\ pc = "cap_finish"
    /\ socketio_client' = FALSE
    /\ ReturnTrue
    /\ UNCHANGED notPipe
    /\ UNCHANGED stageVars
    /\ UNCHANGED <<cfg, runId, executed, camCheck, frame_count, resultsJson,
                   appended, rgb, payload, reported, warned>>

NextPipe ==
    \/ Invoke \/ Reboot \/ Main
    \/ FullCameraCheck \/ FullArchive \/ FullConnect \/ FullCapture \/ FullExtract
    \/ FullPreprocess \/ FullMask \/ FullSludge \/ FullGeometry \/ FullMetrics
    \/ FullRgb \/ FullGraphs \/ FullGetResults \/ FullSendDashboard \/ FullUpload
    \/ FullModbus \/ FullFinish
    \/ CapConnect \/ CapCapture \/ CapUpload \/ CapFinish

\* The other two machines at rest.

(***************************************************************************)
(* Claims about the orchestrator (checked under SpecPipe)                  *)
(***************************************************************************)
Last(q) == q[Len(q)]
FullMode == ~cfg["CAPTURE_ONLY_MODE"]

\* C1: in full mode, a camera check that finds a camera unreachable, or a frame
\* extraction that yields zero frames, ends the run FAILED at that stage: the
\* failing stage is the last one the run ever executes.
C1_FatalStopsRun ==
    FullMode =>
      /\ (camCheck = "failed" =>
             pc = "idle" /\ exitStatus = "failed" /\ executed = <<"camera_check">>)
      /\ (frame_count = 0 =>
             pc = "idle" /\ exitStatus = "failed" /\ Last(executed) = "extract")

C1_Witness ==
    /\ FullMode /\ runId = 2 /\ exitStatus = "failed"
    /\ camCheck = "ok" /\ frame_count = 0

\* The stages C2 names, as main.py and the modules call them.
C2_Stages == {"camera_check", "capture", "extract", "preprocess_batch", "mask_batch",
              "otsu_binary", "sludge_mask_batch", "metrics_batch"}
IsC2Stage(x) == x \in C2_Stages

\* C2 (as stated): a full-mode run that reaches DONE has executed camera check,
\* acquisition, frame extraction, crop, vessel masking, binary separation
\* (Otsu thresholding), interface detection and metrics calculation, each
\* exactly once and in that order.
C2_AllStagesInOrder ==
    (FullMode /\ exitStatus = "done") =>
      SelectSeq(executed, IsC2Stage) =
        <<"camera_check", "capture", "extract", "preprocess_batch", "mask_batch",
          "otsu_binary", "sludge_mask_batch", "metrics_batch">>

\* C3: in capture-only mode the run calls acquisition and then, at most, the
\* upload of the raw artifacts: no analysis stage is ever executed.
C3_CaptureOnlySkipsAnalysis ==
    cfg["CAPTURE_ONLY_MODE"] =>
      /\ executed \in {<<>>, <<"capture">>, <<"capture", "upload">>}
      /\ \A i \in 1..Len(executed) : executed[i] \notin AnalysisStages

C3_Witness ==
    /\ cfg["CAPTURE_ONLY_MODE"] /\ exitStatus = "done"
    /\ executed = <<"capture", "upload">>

C10_NoStaleMetrics ==
    /\ (FullMode /\ exitStatus = "done") => appended > 0
    /\ payload # NoPayload => payload.src = payload.run
    /\ \A r \in reported : r.src = r.run

\* C11 (as stated): a full-mode run that ends FAILED on a device with the
\* dashboard enabled has, before returning, tried to send the operator a
\* warning that names the reason.
C11_FailedRunsNotify ==
    (FullMode /\ cfg["SOCKETIO_ENABLED"] /\ exitStatus = "failed") => warned # "none"

\* C12 (as stated): once the metrics are computed, no failure of the uploader,
\* its initialisation included, keeps the run from ending DONE.
C12_UploadFailureNotFatal ==
    (FullMode /\ uploader \in {"init_failed", "unset"} /\ pc = "idle") =>
        exitStatus = "done"

\* C13 (as stated): when the vessel mask cannot be obtained (the segmentation
\* raises, or there is no frame to derive it from), the run ends there, not
\* DONE, and neither interface detection nor metrics calculation is executed.
C13_NoMaskStopsRun ==
    (FullMode /\ mask \in {"no_frames", "raised"}) =>
      /\ pc = "idle"
      /\ exitStatus \in {"failed", "crashed"}
      /\ Last(executed) = "mask_batch"

C31_ArchiveBeforeAcquisition ==
    cfg["ARCHIVE_ENABLED"] =>
        \A i \in 1..Len(executed) :
            executed[i] = "capture" => \E j \in 1..(i - 1) : executed[j] = "archive"

(***************************************************************************)
(* Recorder: sv30_pipeline/modules/video_capture.py                        *)
(***************************************************************************)
Labels == {"t2", "t33"}
target_duration == VIDEO_DURATION_SEC
max_total_time == VIDEO_DURATION_SEC + VIDEO_BUFFER_SEC

\* The clock saturates one tick past the budget: every threshold the recorder
\* compares a time with is at most max_total_time.
ClockCap == max_total_time + 1
Advance(t, d) == IF t + d > ClockCap THEN ClockCap ELSE t + d
\* The attempt counter saturates well above what the budget allows.
AttemptCap == 2 * ClockCap

\* VideoRecorder.__init__ and the locals record_with_retry starts with.
InitRec ==
    /\ CAM1_TYPE \in {"USB", "RTSP"}
    /\ rpc = "start"
    /\ running = TRUE
    /\ cam2_t1_captured = FALSE
    /\ cam2_t2_captured = FALSE
    /\ saved = {}
    /\ now = 0
    /\ total_recorded = 0
    /\ attempt = 0
    /\ attemptAt = -1
    /\ remaining = -1
    /\ video_path = FALSE
    /\ cap = "none"
    /\ frames_written = 0
    /\ actual_duration = 0
    /\ result = "pending"

\* (mutant) the time budget is never checked
BudgetExceeded_Never(elapsed_total) == FALSE

\* record_with_retry: the check that ends the retry loop.
BudgetExceeded(elapsed_total) == elapsed_total > max_total_time

\* record_video_usb: the written file exists and is larger than 1 MB; one tick
\* of frames is far more than that.
FileOk(frames) == frames > 0

\* The snapshot blocks of both loops: a snapshot is due once t has reached its
\* time; capture_cam2_snapshot is called, its return value dropped, the flag set.
\* ok holds the labels whose capture would succeed now.
TakeSnapshots(t, ok) ==
    LET due == {l \in Labels : \/ l = "t2" /\ ~cam2_t1_captured /\ t >= t1_snapshot_sec
                               \/ l = "t33" /\ ~cam2_t2_captured /\ t >= t2_snapshot_sec}
    IN  /\ cam2_t1_captured' = (cam2_t1_captured \/ "t2" \in due)
        /\ cam2_t2_captured' = (cam2_t2_captured \/ "t33" \in due)
        /\ saved' = saved \cup (due \cap ok)

\* The "final t33 snapshot if not done" block after a recording.
FinalSnapshot(ok) ==
    /\ cam2_t2_captured' = TRUE
    /\ saved' = IF cam2_t2_captured THEN saved ELSE saved \cup (ok \cap {"t33"})
    /\ UNCHANGED cam2_t1_captured

\* signal_handler: SIGINT / SIGTERM.
SignalHandler ==
    /\ rpc # "returned"
    /\ running
    /\ running' = FALSE
    /\ UNCHANGED <<CAM1_TYPE, remaining, rpc, cam2_t1_captured, cam2_t2_captured, saved, now,
                   total_recorded, attempt, attemptAt, video_path, cap,
                   frames_written, actual_duration, result>>
    /\ UNCHANGED notRec

\* record_with_retry up to the choice of the recording method.
RecordWithRetry ==
    /\ rpc = "start"
    /\ rpc' = IF CAM1_TYPE = "USB" THEN "usb_open" ELSE "rtsp_loop"
    /\ UNCHANGED <<CAM1_TYPE, remaining, running, cam2_t1_captured, cam2_t2_captured, saved, now,
                   total_recorded, attempt, attemptAt, video_path, cap,
                   frames_written, actual_duration, result>>
    /\ UNCHANGED notRec

\* record_video_usb: open the camera and create the writer.
UsbOpen ==
    /\ rpc = "usb_open"
    /\ \E opened \in BOOLEAN, writer_opened \in BOOLEAN :
         IF ~opened
           THEN rpc' = "returned" /\ result' = "False" /\ UNCHANGED cap
           ELSE IF ~writer_opened
                  THEN rpc' = "returned" /\ result' = "False" /\ cap' = "released"
                  ELSE rpc' = "usb_loop" /\ cap' = "open" /\ UNCHANGED result
    /\ UNCHANGED <<CAM1_TYPE, remaining, running, cam2_t1_captured, cam2_t2_captured, saved, now,
                   total_recorded, attempt, attemptAt, video_path,
                   frames_written, actual_duration>>
    /\ UNCHANGED notRec

\* record_video_usb: the recording loop, observed every 1..MaxStep ticks.  A
\* failed read writes nothing and continues; an exception raised in the loop
\* is caught by the except clause, which returns without calling cap.release():
\* whether the handle is closed by then is left to object finalisation.
UsbLoop ==
    /\ rpc = "usb_loop"
    /\ running
    /\ now < target_duration
    /\ \E ok \in SUBSET Labels, raised \in BOOLEAN, ret \in BOOLEAN, d \in 1..MaxStep :
         /\ TakeSnapshots(now, ok)
         /\ IF raised
              THEN /\ rpc' = "returned"
                   /\ result' = "False"
                   /\ cap' \in {"open", "released"}
                   /\ UNCHANGED <<now, frames_written>>
              ELSE /\ now' = Advance(now, d)
                   /\ frames_written' = IF ret THEN frames_written + d ELSE frames_written
                   /\ UNCHANGED <<rpc, result, cap>>
    /\ UNCHANGED <<CAM1_TYPE, remaining, running, total_recorded, attempt, attemptAt, video_path,
                   actual_duration>>
    /\ UNCHANGED notRec

\* record_video_usb after the loop: cleanup, file check, final snapshot, return.
UsbFinish ==
    /\ rpc = "usb_loop"
    /\ ~running \/ now >= target_duration
    /\ actual_duration' = now
    /\ cap' = "released"
    /\ rpc' = "returned"
    /\ IF FileOk(frames_written)
         THEN /\ \E ok \in SUBSET Labels : FinalSnapshot(ok)
              /\ result' = "True"
         ELSE /\ result' = "False"
              /\ UNCHANGED <<cam2_t1_captured, cam2_t2_captured, saved>>
    /\ UNCHANGED <<CAM1_TYPE, remaining, running, now, total_recorded, attempt, attemptAt,
                   video_path, frames_written>>
    /\ UNCHANGED notRec

\* record_with_retry: remaining = target_duration - total_recorded.
RemainingDuration(recorded) == target_duration - recorded

\* record_with_retry: the top of one pass of the RTSP loop, up to the call of
\* record_video_rtsp(remaining).
RtspLoop ==
    /\ rpc = "rtsp_loop"
    /\ total_recorded < target_duration /\ running
    /\ IF BudgetExceeded(now)
         THEN /\ rpc' = "returned"
              /\ result' = "False"
              /\ UNCHANGED <<cam2_t1_captured, cam2_t2_captured, saved,
                             attempt, attemptAt, remaining>>
         ELSE /\ \E ok \in SUBSET Labels : TakeSnapshots(total_recorded, ok)
              /\ attempt' = IF attempt < AttemptCap THEN attempt + 1 ELSE attempt
              /\ attemptAt' = now
              /\ remaining' = RemainingDuration(total_recorded)
              /\ rpc' = "rtsp_recording"
              /\ UNCHANGED result
    /\ UNCHANGED <<CAM1_TYPE, running, now, total_recorded, video_path, cap,
                   frames_written, actual_duration>>
    /\ UNCHANGED notRec

\* record_video_rtsp(remaining) returns, and the rest of the pass.  duration is
\* the time the ffmpeg call took, whether it succeeded or not; it is bounded by
\* the subprocess timeout.
RtspRecorded ==
    /\ rpc = "rtsp_recording"
    /\ \E success \in BOOLEAN, duration \in 0..(remaining + FfmpegTimeoutExtra) :
         IF success
           THEN /\ total_recorded' = total_recorded + duration
                /\ video_path' = TRUE
                /\ now' = IF total_recorded + duration >= target_duration
                            THEN Advance(now, duration)
                            ELSE Advance(now, duration + RetrySleepPartial)
           ELSE /\ now' = Advance(now, duration + RetrySleepFailed)
                /\ UNCHANGED <<total_recorded, video_path>>
    /\ rpc' = "rtsp_loop"
    /\ UNCHANGED <<CAM1_TYPE, running, cam2_t1_captured, cam2_t2_captured, saved,
                   attempt, attemptAt, remaining, cap, frames_written,
                   actual_duration, result>>
    /\ UNCHANGED notRec

\* record_with_retry after the RTSP loop: final snapshot and return.
RtspFinish ==
    /\ rpc = "rtsp_loop"
    /\ ~(total_recorded < target_duration /\ running)
    /\ IF video_path
         THEN \E ok \in SUBSET Labels : FinalSnapshot(ok)
         ELSE UNCHANGED <<cam2_t1_captured, cam2_t2_captured, saved>>
    /\ result' = IF video_path THEN "True" ELSE "False"
    /\ rpc' = "returned"
    /\ UNCHANGED <<CAM1_TYPE, remaining, running, now, total_recorded, attempt, attemptAt,
                   video_path, cap, frames_written, actual_duration>>
    /\ UNCHANGED notRec

\* The steps the recorder takes by itself.
RecorderStep ==
    \/ RecordWithRetry
    \/ UsbOpen
    \/ UsbLoop
    \/ UsbFinish
    \/ RtspLoop
    \/ RtspRecorded
    \/ RtspFinish

NextRec ==
    \/ SignalHandler
    \/ RecordWithRetry
    \/ UsbOpen
    \/ UsbLoop
    \/ UsbFinish
    \/ RtspLoop
    \/ RtspRecorded
    \/ RtspFinish

(***************************************************************************)
(* Claims about the recorder (checked under SpecRec / SpecRecLive)         *)
(***************************************************************************)
\* What the recorder itself counts as the recorded duration.
Recorded == IF CAM1_TYPE = "USB" THEN actual_duration ELSE total_recorded

\* C4 (as stated): acquisition returns success only if the recorded duration has
\* reached the target, for the USB as for the RTSP camera.
C4_SuccessMeansTarget ==
    result = "True" => Recorded >= target_duration

\* C5: no attempt begins after the time budget (target plus buffer) is spent,
\* the number of attempts is bounded, and record_with_retry returns.
C5_RetriesEnd ==
    /\ [](attemptAt <= max_total_time /\ attempt <= max_total_time + 1)
    /\ <>(rpc = "returned")

C5_Witness ==
    /\ CAM1_TYPE = "RTSP" /\ rpc = "returned" /\ result = "False"
    /\ attempt >= 2 /\ now > max_total_time /\ running

\* C6 (as stated): when acquisition returns success, the early and the late
\* snapshot have both been captured and saved.
C6_SuccessMeansSnapshots ==
    result = "True" => saved = Labels

\* C7 (as stated): when recording returns after the camera was opened, the
\* camera handle has been released.
C7_HandleReleased ==
    rpc = "returned" => cap # "open"

\* C17 (as stated): the attempt in progress was asked for exactly the target
\* minus the cumulative recorded duration; acquisition gives up short of the
\* target only once the time budget is spent (otherwise a further attempt is
\* made); and it succeeds when the cumulative duration has reached the target
\* within the budget.  Runs ended by a stop signal are left aside.
C17_ShortAttemptRetried ==
    /\ (rpc = "rtsp_recording" => remaining = target_duration - total_recorded)
    /\ (rpc = "returned" /\ running /\ Recorded < target_duration) =>
           now > max_total_time
    /\ (rpc = "returned" /\ running /\ CAM1_TYPE = "RTSP"
           /\ total_recorded >= target_duration /\ attemptAt <= max_total_time) =>
           result = "True"

(***************************************************************************)
(* Operator machine: src/src/models/test_state.py, services/test_service.py *)
(* and services/sv30_data_provider.py, with the main.py subprocesses it     *)
(* launches.                                                                *)
(***************************************************************************)
ProcIds == 1..MaxProcs
Launched == {p \in ProcIds : procs[p] # "none"}
Executing == {p \in ProcIds : procs[p] \in {"acquiring", "processing"}}

\* TestStateManager.__init__; SV30DataProvider.subprocess_process = None.
InitHmi ==
    /\ test_state = "idle"
    /\ hpc = "none"
    /\ procs = [p \in ProcIds |-> "none"]

\* TestService.start_test, except clause: back to IDLE if still STARTING.
StartFailed ==
    /\ test_state' = IF test_state = "starting" THEN "idle" ELSE test_state
    /\ hpc' = "none"

\* TestStateManager.confirm_start.
confirm_start == IF test_state = "starting" THEN "running" ELSE test_state

\* TestService.start_test up to generate_t0_data: the IDLE check and
\* TestStateManager.start_test.
StartTest ==
    /\ hpc = "none"
    /\ test_state = "idle"
    /\ Cardinality(Launched) < MaxProcs
    /\ test_state' = "starting"
    /\ hpc' = "launch"
    /\ UNCHANGED <<procs, bootMarker>>
    /\ UNCHANGED notHmi

\* SV30DataProvider._start_capture_subprocess: Popen([python, "main.py"]).
StartCaptureSubprocess ==
    /\ hpc = "launch"
    /\ \E popen_ok \in BOOLEAN :
         IF popen_ok
           THEN /\ procs' = [procs EXCEPT ![Cardinality(Launched) + 1] = "boot_check"]
                /\ hpc' = "poll"
                /\ UNCHANGED test_state
           ELSE /\ StartFailed
                /\ UNCHANGED procs
    /\ UNCHANGED bootMarker
    /\ UNCHANGED notHmi

\* _start_capture_subprocess after sleep(2): poll(); then generate_t0_data
\* raises or TestService.start_test confirms the start.
PollSubprocess ==
    /\ hpc = "poll"
    /\ IF procs[Cardinality(Launched)] = "exited"
         THEN StartFailed
         ELSE test_state' = confirm_start /\ hpc' = "none"
    /\ UNCHANGED <<procs, bootMarker>>
    /\ UNCHANGED notHmi

\* TestService.abort_test / TestStateManager.abort_test.
AbortTest ==
    /\ test_state \in {"starting", "running"}
    /\ test_state' = "aborted"
    /\ UNCHANGED <<hpc, procs, bootMarker>>
    /\ UNCHANGED notHmi

\* TestService.reset_test / TestStateManager.reset_to_idle.
ResetTest ==
    /\ test_state # "idle"
    /\ test_state' = "idle"
    /\ UNCHANGED <<hpc, procs, bootMarker>>
    /\ UNCHANGED notHmi

\* TestStateManager.complete_test, called when the test duration has elapsed.
CompleteTest ==
    /\ test_state = "running"
    /\ test_state' = "completed"
    /\ UNCHANGED <<hpc, procs, bootMarker>>
    /\ UNCHANGED notHmi

\* main.py __main__ of subprocess p: the boot gate.
ProcBootGate(p) ==
    /\ procs[p] = "boot_check"
    /\ procs' = [procs EXCEPT ![p] = IF check_boot_marker THEN "exited" ELSE "acquiring"]
    /\ UNCHANGED <<test_state, hpc, bootMarker>>
    /\ UNCHANGED notHmi

\* Subprocess p: capture_video_and_snapshots returns.
ProcAcquired(p) ==
    /\ procs[p] = "acquiring"
    /\ \E success \in BOOLEAN :
         procs' = [procs EXCEPT ![p] = IF success THEN "processing" ELSE "exited"]
    /\ UNCHANGED <<test_state, hpc, bootMarker>>
    /\ UNCHANGED notHmi

\* Subprocess p: the stages after acquisition end; a run that returns True
\* writes the boot marker.
ProcFinished(p) ==
    /\ procs[p] = "processing"
    /\ procs' = [procs EXCEPT ![p] = "exited"]
    /\ \E returned_true \in BOOLEAN :
         bootMarker' = IF returned_true THEN create_boot_marker ELSE bootMarker
    /\ UNCHANGED <<test_state, hpc>>
    /\ UNCHANGED notHmi

NextHmi ==
    \/ StartTest
    \/ StartCaptureSubprocess
    \/ PollSubprocess
    \/ AbortTest
    \/ ResetTest
    \/ CompleteTest
    \/ \E p \in ProcIds : ProcBootGate(p)
    \/ \E p \in ProcIds : ProcAcquired(p)
    \/ \E p \in ProcIds : ProcFinished(p)

(***************************************************************************)
(* Claims about the operator machine (checked under SpecHmi)               *)
(***************************************************************************)
\* C8 (as stated): at any time at most one launched pipeline run is acquiring
\* or processing.
C8_SingleRun == Cardinality(Executing) <= 1

(***************************************************************************)
(* The Flask application: src/src/app.py (monitor_test) and                *)
(* src/src/api/routes.py, on the TestStateManager of models/test_state.py. *)
(* Each request is served by its own thread; a step is one call into the   *)
(* manager, which runs under its lock.                                     *)
(***************************************************************************)
Requests == 1..MaxRequests

\* TestStateManager.__init__; no request, no thread.  A test is named by the
\* start request that took the manager from IDLE to STARTING.
InitApi ==
    /\ req = [r \in Requests |-> "none"]
    /\ elapsed = -1
    /\ test_data = {}
    /\ height_history = 0
    /\ started = {}
    /\ t30_thread = {}
    /\ mon = "sleep"
    /\ updater = [r \in Requests |-> "none"]
    /\ height_by = {}
    /\ t30_by = {}
    /\ t30_sends = 0
    /\ completed_event = FALSE

\* (mutant) start_test without its state check
CanStart_Always(state) == TRUE

\* TestStateManager.start_test: only from IDLE.
CanStart(state) == state = "idle"

\* TestStateManager.is_test_complete.
is_test_complete ==
    /\ ~(elapsed = -1 \/ test_state # "running")
    /\ elapsed >= TEST_DURATION_MINUTES

\* (mutant) complete_test without its state check
complete_test_Always == "completed"

\* TestStateManager.complete_test: only from RUNNING.
complete_test == IF test_state = "running" THEN "completed" ELSE test_state

\* A POST /api/test/start arrives.
StartRequest(r) ==
    /\ req[r] = "none"
    /\ req' = [req EXCEPT ![r] = "check"]
    /\ UNCHANGED <<test_state, elapsed, test_data, height_history, started, t30_thread>>
    /\ UNCHANGED <<updater, threadVars>>
    /\ UNCHANGED notApi

\* routes.start_test: current_state = test_manager.state; not IDLE, answer 400.
CheckState(r) ==
    /\ req[r] = "check"
    /\ req' = [req EXCEPT ![r] = IF test_state # "idle" THEN "busy" ELSE "start"]
    /\ UNCHANGED <<test_state, elapsed, test_data, height_history, started, t30_thread>>
    /\ UNCHANGED <<updater, threadVars>>
    /\ UNCHANGED notApi

\* routes.start_test: test_manager.start_test(); False, answer 400.
StartTestCall(r) ==
    /\ req[r] = "start"
    /\ IF CanStart(test_state)
         THEN /\ test_state' = "starting"
              /\ elapsed' = 0
              /\ test_data' = {}
              /\ height_history' = 0
              /\ height_by' = {}
              /\ t30_by' = {}
              /\ t30_sends' = 0
              /\ completed_event' = FALSE
              /\ started' = started \cup {r}
              /\ req' = [req EXCEPT ![r] = "t0"]
         ELSE /\ req' = [req EXCEPT ![r] = "lost"]
              /\ UNCHANGED <<test_state, elapsed, test_data, height_history, started,
                             height_by, t30_by, t30_sends, completed_event>>
    /\ UNCHANGED <<t30_thread, mon, updater>>
    /\ UNCHANGED notApi

\* routes.start_test: generate_t0_data() and set_test_data("t0_data", ...); an
\* error is answered with 500 and leaves the manager as it is.
GenerateT0(r) ==
    /\ req[r] = "t0"
    /\ \E raised \in BOOLEAN :
         IF raised
           THEN /\ req' = [req EXCEPT ![r] = "error"]
                /\ UNCHANGED test_data
           ELSE /\ req' = [req EXCEPT ![r] = "confirm"]
                /\ test_data' = test_data \cup {"t0_data"}
    /\ UNCHANGED <<test_state, elapsed, height_history, started, t30_thread>>
    /\ UNCHANGED <<updater, threadVars>>
    /\ UNCHANGED notApi

\* routes.start_test: confirm_start(), start the periodic-update thread, answer.
ConfirmStart(r) ==
    /\ req[r] = "confirm"
    /\ test_state' = confirm_start
    /\ req' = [req EXCEPT ![r] = "ok"]
    /\ updater' = [updater EXCEPT ![r] = "check"]
    /\ UNCHANGED <<elapsed, test_data, height_history, started, t30_thread>>
    /\ UNCHANGED threadVars
    /\ UNCHANGED notApi

\* routes.abort_test / TestStateManager.abort_test.
AbortRoute ==
    /\ test_state \in {"starting", "running"}
    /\ test_state' = "aborted"
    /\ elapsed' = -1
    /\ UNCHANGED <<req, test_data, height_history, started, t30_thread>>
    /\ UNCHANGED <<updater, threadVars>>
    /\ UNCHANGED notApi

\* routes.reset_test / TestStateManager.reset_to_idle.
ResetRoute ==
    /\ test_state # "idle"
    /\ test_state' = "idle"
    /\ elapsed' = -1
    /\ test_data' = {}
    /\ height_history' = 0
    /\ height_by' = {}
    /\ t30_by' = {}
    /\ t30_sends' = 0
    /\ completed_event' = FALSE
    /\ started' = {}
    /\ UNCHANGED <<req, t30_thread, mon, updater>>
    /\ UNCHANGED notApi

\* routes.send_periodic_updates, top of the loop: the thread of request r ends
\* when the state is not RUNNING, and sleeps until the entry is due otherwise.
UpdaterCheck(r) ==
    /\ updater[r] = "check"
    /\ updater' = [updater EXCEPT ![r] =
                     IF test_state # "running" THEN "none" ELSE "wait"]
    /\ UNCHANGED <<test_state, req, elapsed, test_data, height_history, started, t30_thread>>
    /\ UNCHANGED threadVars
    /\ UNCHANGED notApi

\* routes.send_periodic_updates, after the sleep: add_height_entry while the
\* state is RUNNING.  The entries cover the duration of a test; those beyond
\* MaxHistory are not recorded.
AddHeightEntry(r) ==
    /\ updater[r] = "wait"
    /\ IF test_state = "running" /\ height_history < MaxHistory
         THEN /\ height_history' = height_history + 1
              /\ height_by' = height_by \cup {r}
         ELSE UNCHANGED <<height_history, height_by>>
    /\ updater' = [updater EXCEPT ![r] = "check"]
    /\ UNCHANGED <<test_state, req, elapsed, test_data, started, t30_thread>>
    /\ UNCHANGED <<mon, t30_by, t30_sends, completed_event>>
    /\ UNCHANGED notApi

\* Time passes; beyond the test duration no comparison tells times apart.
Tick ==
    /\ elapsed >= 0
    /\ elapsed < TEST_DURATION_MINUTES
    /\ elapsed' = elapsed + 1
    /\ UNCHANGED <<test_state, req, test_data, height_history, started, t30_thread>>
    /\ UNCHANGED <<updater, threadVars>>
    /\ UNCHANGED notApi

\* app.monitor_test: a pass of the loop that finds the test RUNNING and its
\* duration elapsed.  A pass that finds nothing to do changes nothing.
MonitorCheck ==
    /\ mon = "sleep"
    /\ test_state = "running"
    /\ is_test_complete
    /\ mon' = "complete"
    /\ UNCHANGED <<test_state, req, elapsed, test_data, height_history, started, t30_thread>>
    /\ UNCHANGED <<updater, height_by, t30_by, t30_sends, completed_event>>
    /\ UNCHANGED notApi

\* app.monitor_test, the rest of that pass: complete_test(), the t30 thread
\* when the record holds t0_data, the test_completed event.
MonitorTest ==
    /\ mon = "complete"
    /\ mon' = "sleep"
    /\ test_state' = complete_test
    /\ t30_thread' = IF "t0_data" \in test_data THEN t30_thread \cup started ELSE t30_thread
    /\ completed_event' = TRUE
    /\ UNCHANGED <<req, elapsed, test_data, height_history, started>>
    /\ UNCHANGED <<updater, height_by, t30_by, t30_sends>>
    /\ UNCHANGED notApi

\* app.monitor_test.generate_and_send_t30, in its own thread, for test k.
\* Only the sends of the test the record belongs to are counted.
GenerateT30(k) ==
    /\ k \in t30_thread
    /\ t30_thread' = t30_thread \ {k}
    /\ \E raised \in BOOLEAN :
         IF raised
           THEN UNCHANGED <<test_data, t30_by, t30_sends>>
           ELSE /\ test_data' = test_data \cup {"t30_data"}
                /\ t30_by' = t30_by \cup {k}
                /\ t30_sends' = IF k \in started THEN t30_sends + 1 ELSE t30_sends
    /\ UNCHANGED <<test_state, req, elapsed, height_history, started>>
    /\ UNCHANGED <<mon, updater, height_by, completed_event>>
    /\ UNCHANGED notApi

\* routes.get_test_result on a COMPLETED test whose record holds no t30_data
\* yet: it generates the data, stores it and starts a thread that sends it.
\* Any other result request changes nothing.
ResultRoute ==
    /\ test_state = "completed"
    /\ "t30_data" \notin test_data
    /\ "t0_data" \in test_data
    /\ test_data' = test_data \cup {"t30_data"}
    /\ t30_by' = t30_by \cup started
    /\ t30_sends' = t30_sends + 1
    /\ UNCHANGED <<test_state, req, elapsed, height_history, started, t30_thread>>
    /\ UNCHANGED <<mon, updater, height_by, completed_event>>
    /\ UNCHANGED notApi

NextApi ==
    \/ \E r \in Requests : StartRequest(r)
    \/ \E r \in Requests : CheckState(r)
    \/ \E r \in Requests : StartTestCall(r)
    \/ \E r \in Requests : GenerateT0(r)
    \/ \E r \in Requests : ConfirmStart(r)
    \/ AbortRoute
    \/ ResetRoute
    \/ \E r \in Requests : UpdaterCheck(r)
    \/ \E r \in Requests : AddHeightEntry(r)
    \/ Tick
    \/ MonitorCheck
    \/ MonitorTest
    \/ \E k \in Requests : GenerateT30(k)
    \/ ResultRoute

(***************************************************************************)
(* Claims about the Flask application (checked under SpecApi / SpecApiLive) *)
(***************************************************************************)
\* C15: however concurrent start requests interleave, exactly one of them takes
\* the state machine from IDLE to STARTING (until it is reset to IDLE again),
\* and a request that is rejected, at the state check or by start_test, leaves
\* the state, the start time, the test data and the height history as they are.
C15_OneStartWins ==
    /\ [](Cardinality(started) = IF test_state = "idle" THEN 0 ELSE 1)
    /\ [][\A r \in Requests :
            (req'[r] \in {"busy", "lost"} /\ req[r] # req'[r]) =>
               UNCHANGED <<test_state, elapsed, test_data, height_history>>]_vars

C15_Witness ==
    \E a, b \in Requests :
       /\ req[a] = "ok" /\ req[b] = "lost"
       /\ started = {a} /\ test_state = "running"
       /\ elapsed > 0 /\ height_history > 0 /\ "t0_data" \in test_data

\* C16: a RUNNING test that is neither aborted nor reset is eventually moved to
\* COMPLETED by the monitor, and only once its duration has elapsed.
C16_RunningCompletes ==
    /\ [](test_state = "completed" => elapsed >= TEST_DURATION_MINUTES)
    /\ (test_state = "running") ~> (test_state \in {"completed", "aborted", "idle"})

\* C34: no background thread started for an earlier test (periodic height
\* updates, t=30 generation) writes a height entry or t30_data into the record
\* of a later test, however abort, reset and start requests interleave with it.
C34_NoForeignWrites ==
    test_state # "idle" => height_by \subseteq started /\ t30_by \subseteq started

\* C35: the completion side effects (the t=30 thread, the test_completed
\* event) occur only in a pass of the monitor that changed the state from
\* RUNNING to COMPLETED, never for a test aborted or reset in between.
C35_SideEffectsOnlyOnCompletion ==
    [][(t30_thread' # t30_thread /\ t30_thread \subseteq t30_thread')
         \/ (completed_event' /\ ~completed_event)
       => test_state = "running" /\ test_state' = "completed"]_vars

\* C36: for each completed test, t=30 data is generated and sent to the
\* backend at most once, however the monitor's background generation and
\* result requests interleave.
C36_T30SentOnce == t30_sends <= 1

\* The changes of state the manager allows.
Transitions ==
    {<<"idle", "starting">>, <<"starting", "running">>, <<"running", "completed">>,
     <<"starting", "aborted">>, <<"running", "aborted">>}
    \cup {<<st, "idle">> : st \in {"starting", "running", "completed", "aborted"}}

\* C37: the state changes only IDLE->STARTING, STARTING->RUNNING,
\* RUNNING->COMPLETED, STARTING or RUNNING->ABORTED and any state->IDLE; an
\* aborted test becomes RUNNING or COMPLETED only after a reset and a new start.
C37_OnlyAllowedTransitions ==
    [][test_state' # test_state => <<test_state, test_state'>> \in Transitions]_vars

\* A test aborted between the monitor's is_test_complete and complete_test:
\* complete_test has acted on it and it is still ABORTED.
C37_Witness ==
    /\ test_state = "aborted"
    /\ \E a \in Requests :
         /\ req[a] = "ok" /\ started = {a}
         /\ updater[a] = "none" /\ height_history = 0
         /\ \A b \in Requests \ {a} : req[b] = "none"
    /\ completed_event /\ mon = "sleep"

\* C38: when t=0 data generation fails during a start request, the request
\* reports an error and the state is IDLE when it returns.
C38_FailedStartBackToIdle ==
    [][\A r \in Requests :
          (req[r] = "t0" /\ req'[r] = "error") => test_state' = "idle"]_vars

(***************************************************************************)
(* Interface detection: sv30_pipeline/modules/sludge_detect.py.  A         *)
(* candidate is modelled by its row y; fractions are kept exact (twice the *)
(* median, numerator and denominator of the percentage).                   *)
(***************************************************************************)
OUTLIER_THRESHOLD_EXTREME == 100
OUTLIER_THRESHOLD_MODERATE == 30

\* Rows a scan line may report, in increasing order, and the frames' geometry.
DotYsSeq == <<10, 40, 110, 250>>
DotYs == {DotYsSeq[k] : k \in 1..Len(DotYsSeq)}
MixtureTops == {0, 8}
ImageHeights == {600}

NoResult == [frame_index |-> -1]
UnsetPct == [num |-> -1, den |-> 1]
ZeroPct == [num |-> 0, den |-> 1]

RECURSIVE SumSeq(_)
SumSeq(q) == IF q = <<>> THEN 0 ELSE Head(q) + SumSeq(Tail(q))

RECURSIVE InsertByY(_, _)
InsertByY(y, q) ==
    IF q = <<>> THEN <<y>>
    ELSE IF y < Head(q) THEN <<y>> \o q
    ELSE <<Head(q)>> \o InsertByY(y, Tail(q))

\* sorted(dots, key=lambda d: d['y']): stable, increasing.
RECURSIVE SortByY(_)
SortByY(q) ==
    IF q = <<>> THEN <<>>
    ELSE InsertByY(q[Len(q)], SortByY(SubSeq(q, 1, Len(q) - 1)))

\* Twice np.median(ys): the middle row, or the mean of the two middle rows.
Median2(ys) ==
    LET sorted == SortByY(ys)
        n == Len(ys)
    IN  IF n % 2 = 1 THEN 2 * sorted[(n + 1) \div 2]
        ELSE sorted[n \div 2] + sorted[n \div 2 + 1]

\* Twice abs(y - median_y).
Distance2(y, median2) == IF 2 * y >= median2 THEN 2 * y - median2 ELSE median2 - 2 * y

\* (mutant) a dot exactly at the threshold is rejected as well
KeepWithin_Strict(dots, threshold) ==
    LET median2 == Median2(dots)
        Near(y) == Distance2(y, median2) < 2 * threshold
    IN  SelectSeq(dots, Near)

\* One stage of reject_outliers: the dots within threshold of the median.
KeepWithin(dots, threshold) ==
    LET median2 == Median2(dots)
        Near(y) == Distance2(y, median2) <= 2 * threshold
    IN  SelectSeq(dots, Near)

\* reject_outliers(red_dots)[0].
reject_outliers(dots) ==
    IF Len(dots) = 0 THEN <<>>
    ELSE LET stage1_valid == KeepWithin(dots, OUTLIER_THRESHOLD_EXTREME)
         IN  IF Len(stage1_valid) = 0 THEN <<>>
             ELSE KeepWithin(stage1_valid, OUTLIER_THRESHOLD_MODERATE)

\* (mutant) nothing is trimmed
DotsToAverage_NoTrim(valid) == valid

\* average_6_closest: dots_to_average.
DotsToAverage(valid) ==
    LET n_dots == Len(valid)
        sorted_dots == SortByY(valid)
    IN  IF n_dots < 6 THEN valid
        ELSE IF n_dots = 6 THEN valid
        ELSE IF n_dots = 7
          THEN LET median2 == Median2(sorted_dots)
                   dist_top == Distance2(sorted_dots[1], median2)
                   dist_bottom == Distance2(sorted_dots[n_dots], median2)
               IN  IF dist_top > dist_bottom
                     THEN SubSeq(sorted_dots, 2, n_dots)
                     ELSE SubSeq(sorted_dots, 1, n_dots - 1)
        ELSE IF n_dots = 8 THEN SubSeq(sorted_dots, 2, n_dots - 1)
        ELSE SubSeq(sorted_dots, 3, n_dots - 2)

\* (mutant) the mean is rounded to the nearest row
IntMean_Nearest(ys) == (2 * SumSeq(ys) + Len(ys)) \div (2 * Len(ys))

\* int(np.mean(y_positions)): the fraction is cut off (rows are not negative).
IntMean(ys) == SumSeq(ys) \div Len(ys)

\* calculate_sv30, as the fraction num / den.
calculate_sv30(top, sludge_y, h) ==
    IF h - top <= 0 THEN ZeroPct
    ELSE [num |-> (sludge_y - top) * 100, den |-> h - top]

\* (mutant) the frame without valid dots is averaged like any other
NeedsFallback_Never(valid) == FALSE

\* process_all: len(valid_dots) == 0.
NeedsFallback(valid) == Len(valid) = 0

\* The lists a scan can return: up to MaxDots rows of DotYs in increasing or
\* in decreasing order of y.
RECURSIVE Repeated(_, _)
Repeated(counts, k) ==
    IF k > Len(DotYsSeq) THEN <<>>
    ELSE [j \in 1..counts[k] |-> DotYsSeq[k]] \o Repeated(counts, k + 1)
RECURSIVE Total(_, _)
Total(counts, k) == IF k > Len(DotYsSeq) THEN 0 ELSE counts[k] + Total(counts, k + 1)
Reverse(q) == [j \in 1..Len(q) |-> q[Len(q) + 1 - j]]
ScanResults ==
    LET asc == {Repeated(counts, 1) :
                  counts \in {c \in [1..Len(DotYsSeq) -> 0..MaxDots] : Total(c, 1) <= MaxDots}}
    IN  asc \cup {Reverse(q) : q \in asc}

\* process_all after the setup: mixture top detected, no frame processed yet.
InitDet ==
    /\ dpc = "scan"
    /\ frame_index = 0
    /\ mixture_top_y \in MixtureTops
    /\ image_h \in ImageHeights
    /\ red_dots = <<>>
    /\ valid_dots = <<>>
    /\ dots_used = <<>>
    /\ final_sludge_y = -1
    /\ sv30_pct = UnsetPct
    /\ frame_result = NoResult
    /\ results = <<>>
    /\ processed = 0
    /\ errors = 0

\* The except clause of the per-frame try: count the error, next frame.
FrameError ==
    /\ errors' = errors + 1
    /\ dpc' = "raised"
    /\ UNCHANGED <<frame_result, results, processed>>

\* One frame is read and scanned: cv2.imread, top_down_scan_in_top_50.
ScanFrame ==
    /\ dpc = "scan"
    /\ frame_index < MaxDetectFrames
    /\ \E readable \in BOOLEAN :
         IF readable
           THEN /\ red_dots' \in ScanResults
                /\ dpc' = "reject"
                /\ UNCHANGED errors
           ELSE /\ errors' = errors + 1
                /\ dpc' = "unreadable"
                /\ UNCHANGED red_dots
    /\ UNCHANGED <<frame_index, mixture_top_y, image_h, valid_dots, dots_used,
                   final_sludge_y, sv30_pct, frame_result, results, processed>>
    /\ UNCHANGED notDet

\* valid_dots, rejected_dots = reject_outliers(red_dots).
RejectOutliers ==
    /\ dpc = "reject"
    /\ valid_dots' = reject_outliers(red_dots)
    /\ dpc' = "average"
    /\ UNCHANGED <<frame_index, mixture_top_y, image_h, red_dots, dots_used,
                   final_sludge_y, sv30_pct, frame_result, results, processed, errors>>
    /\ UNCHANGED notDet

\* The fallback to the mixture top, or average_6_closest and calculate_sv30.
\* The mean of no row at all is not a number, and int() of it raises.
AverageDots ==
    /\ dpc = "average"
    /\ IF NeedsFallback(valid_dots)
         THEN /\ final_sludge_y' = mixture_top_y
              /\ dots_used' = <<>>
              /\ sv30_pct' = ZeroPct
              /\ dpc' = "store"
              /\ UNCHANGED <<frame_result, results, processed, errors>>
         ELSE IF Len(DotsToAverage(valid_dots)) = 0
           THEN /\ FrameError
                /\ UNCHANGED <<final_sludge_y, dots_used, sv30_pct>>
           ELSE /\ dots_used' = DotsToAverage(valid_dots)
                /\ final_sludge_y' = IntMean(DotsToAverage(valid_dots))
                /\ sv30_pct' = calculate_sv30(mixture_top_y,
                                     IntMean(DotsToAverage(valid_dots)), image_h)
                /\ dpc' = "store"
                /\ UNCHANGED <<frame_result, results, processed, errors>>
    /\ UNCHANGED <<frame_index, mixture_top_y, image_h, red_dots, valid_dots>>
    /\ UNCHANGED notDet

\* results.append(result); processed += 1.
StoreResult ==
    /\ dpc = "store"
    /\ frame_result' = [frame_index |-> frame_index,
                        mixture_top_y |-> mixture_top_y,
                        sludge_interface_y |-> final_sludge_y,
                        sv30_pct |-> sv30_pct,
                        total_dots |-> Len(red_dots),
                        valid_dots |-> Len(valid_dots),
                        dots_used |-> Len(dots_used)]
    /\ results' = Append(results, frame_index)
    /\ processed' = processed + 1
    /\ dpc' = "next"
    /\ UNCHANGED <<frame_index, mixture_top_y, image_h, red_dots, valid_dots,
                   dots_used, final_sludge_y, sv30_pct, errors>>
    /\ UNCHANGED notDet

\* The loop goes on to the next frame, whose pass assigns every local anew.
NextFrame ==
    /\ dpc \in {"next", "unreadable", "raised"}
    /\ frame_index' = frame_index + 1
    /\ dpc' = "scan"
    /\ red_dots' = <<>>
    /\ valid_dots' = <<>>
    /\ dots_used' = <<>>
    /\ final_sludge_y' = -1
    /\ sv30_pct' = UnsetPct
    /\ frame_result' = NoResult
    /\ UNCHANGED <<mixture_top_y, image_h, results, processed, errors>>
    /\ UNCHANGED notDet

NextDet ==
    \/ ScanFrame
    \/ RejectOutliers
    \/ AverageDots
    \/ StoreResult
    \/ NextFrame

(***************************************************************************)
(* Claims about the interface detection (checked under SpecDet)            *)
(***************************************************************************)
\* C18: when outlier rejection leaves no valid candidate for a frame (none
\* found, or all rejected), the frame's interface is the mixture-top row with
\* a reading of 0 %, a record is still appended for the frame, and no error is
\* counted for it.
C18_FallbackToMixtureTop ==
    /\ (dpc = "store" /\ valid_dots = <<>>) =>
          final_sludge_y = mixture_top_y /\ sv30_pct.num = 0 /\ dots_used = <<>>
    /\ (dpc = "next" /\ valid_dots = <<>>) =>
          /\ frame_result.frame_index = frame_index
          /\ frame_result.sludge_interface_y = mixture_top_y
          /\ frame_result.sv30_pct.num = 0
    /\ valid_dots = <<>> => dpc # "raised"
    /\ processed + errors =
          frame_index + (IF dpc \in {"next", "unreadable", "raised"} THEN 1 ELSE 0)

C18_Witness ==
    /\ dpc = "next" /\ red_dots # <<>> /\ valid_dots = <<>>
    /\ frame_result.frame_index = 1 /\ frame_result.total_dots = 2
    /\ processed = 2
    /\ mixture_top_y > 0

\* The selection C19 describes, from the valid dots sorted by y.
C19_Selections(valid) ==
    LET n == Len(valid)
        sorted == SortByY(valid)
        median2 == Median2(valid)
        topFar == Distance2(sorted[1], median2)
        bottomFar == Distance2(sorted[n], median2)
    IN  IF n <= 6 THEN {sorted}
        ELSE IF n = 7
          THEN (IF topFar >= bottomFar THEN {SubSeq(sorted, 2, 7)} ELSE {})
               \cup (IF bottomFar >= topFar THEN {SubSeq(sorted, 1, 6)} ELSE {})
        ELSE IF n = 8 THEN {SubSeq(sorted, 2, 7)}
        ELSE {SubSeq(sorted, 3, n - 2)}

\* C19: the averaged points are all n valid points when n <= 6; all but the end
\* point farther from the median when n = 7; all but the topmost and the
\* bottommost when n = 8; all but the two topmost and the two bottommost when
\* n >= 9.
C19_TrimmedSelection ==
    (dpc \in {"store", "next"} /\ valid_dots # <<>>) =>
        SortByY(dots_used) \in C19_Selections(valid_dots)

C19_Witness ==
    /\ dpc = "next" /\ Len(valid_dots) = 7
    /\ dots_used = SubSeq(SortByY(valid_dots), 2, 7)
    /\ valid_dots[1] # valid_dots[7]

\* C20 (as stated): the frame's final interface_y is the arithmetic mean of the
\* y values of the selected points, whole or not.
C20_ExactMean ==
    (dpc \in {"store", "next"} /\ dots_used # <<>>) =>
        final_sludge_y * Len(dots_used) = SumSeq(dots_used)

\* C20 (amended): the frame's final interface_y is the arithmetic mean of the
\* y values of the selected points with its fraction cut off: the largest whole
\* row not above the mean.
C20_TruncatedMean ==
    (dpc \in {"store", "next"} /\ dots_used # <<>>) =>
        /\ final_sludge_y * Len(dots_used) <= SumSeq(dots_used)
        /\ SumSeq(dots_used) < (final_sludge_y + 1) * Len(dots_used)
        /\ (dpc = "next" => frame_result.sludge_interface_y = final_sludge_y)

C20_Witness ==
    /\ dpc = "next" /\ dots_used # <<>>
    /\ SumSeq(dots_used) % Len(dots_used) # 0
    /\ 2 * (SumSeq(dots_used) % Len(dots_used)) >= Len(dots_used)
    /\ frame_result.sludge_interface_y = final_sludge_y

\* Twice the median of ys by rank, without sorting: the k-th smallest value is
\* the one with fewer than k values below it and at least k values not above.
C22_Median2(ys) ==
    LET n == Len(ys)
        Below(v) == Cardinality({i \in 1..n : ys[i] < v})
        AtMost(v) == Cardinality({i \in 1..n : ys[i] <= v})
        Kth(k) == CHOOSE v \in {ys[i] : i \in 1..n} : Below(v) < k /\ AtMost(v) >= k
    IN  IF n % 2 = 1 THEN 2 * Kth((n + 1) \div 2)
        ELSE Kth(n \div 2) + Kth(n \div 2 + 1)

\* The dots of ys farther than limit from the median of ys are dropped.
C22_Survivors(ys, limit) ==
    LET m2 == C22_Median2(ys)
        Far(y) == 2 * y - m2 > 2 * limit \/ m2 - 2 * y > 2 * limit
        Stays(y) == ~Far(y)
    IN  SelectSeq(ys, Stays)

C22_Spread(ys) ==
    \A i, k \in 1..Len(ys) : ys[i] - ys[k] <= 10

\* C22: the valid set is what is left of the candidates after dropping, first,
\* exactly those farther than 100 px from the median of all candidates and,
\* then, exactly those survivors farther than the moderate threshold from the
\* median of the survivors; a candidate 150 px or more from the median is never
\* valid, and candidates within 10 px of one another are all valid.
C22_TwoStageRejection ==
    (dpc \in {"average", "store", "next"} /\ red_dots # <<>>) =>
        LET stage1 == C22_Survivors(red_dots, OUTLIER_THRESHOLD_EXTREME)
        IN  /\ valid_dots = IF stage1 = <<>> THEN <<>>
                            ELSE C22_Survivors(stage1, OUTLIER_THRESHOLD_MODERATE)
            /\ \A i \in 1..Len(valid_dots) :
                   2 * valid_dots[i] - C22_Median2(red_dots) < 300
                   /\ C22_Median2(red_dots) - 2 * valid_dots[i] < 300
            /\ C22_Spread(red_dots) => valid_dots = red_dots

\* Some dot dropped at stage 1, another at stage 2, the rest valid.
C22_Witness ==
    /\ dpc = "next" /\ valid_dots # <<>>
    /\ Len(C22_Survivors(red_dots, OUTLIER_THRESHOLD_EXTREME)) < Len(red_dots)
    /\ Len(valid_dots) < Len(C22_Survivors(red_dots, OUTLIER_THRESHOLD_EXTREME))

\* C23 (as stated): when the loop is between two frames, results holds exactly
\* one record for every frame gone through, in frame order, the k-th record
\* carrying the index of the k-th frame; and no step changes a record that is
\* already in results.
C23_OneMeasurementPerFrame ==
    /\ [](dpc = "scan" => results = [k \in 1..frame_index |-> k - 1])
    /\ [][/\ Len(results') >= Len(results)
           /\ SubSeq(results', 1, Len(results)) = results]_vars

(***************************************************************************)
(* One scan line of top_down_scan_in_top_50 (modules/sludge_detect.py).    *)
(* The lines of a frame are scanned one after the other and share nothing  *)
(* but the list they append to.  Row y of the image is column[y + 1].      *)
(***************************************************************************)
BLACK_PIXELS_REQUIRED == 5
SCAN_DEPTH_PCT == 50
White == 255
Black == 0

Pixel(col, y) == col[y + 1]

\* (mutant) the whole mixture is scanned
ScanDepth_Whole(h, top) == h - top

\* scan_depth = int(mixture_height * (SCAN_DEPTH_PCT / 100)).
ScanDepth(h, top) == ((h - top) * SCAN_DEPTH_PCT) \div 100

\* The end of range(mixture_top_y, min(scan_stop_y, h - BLACK_PIXELS_REQUIRED)).
ScanEnd(h, top) ==
    LET scan_stop_y == top + ScanDepth(h, top)
    IN  IF scan_stop_y < h - BLACK_PIXELS_REQUIRED
          THEN scan_stop_y ELSE h - BLACK_PIXELS_REQUIRED

\* has_n_black_below after the offset loop.
has_n_black_below(col, y) ==
    \A offset \in 1..BLACK_PIXELS_REQUIRED : Pixel(col, y + offset) = Black

\* A binary image column and a mixture top inside it; nothing scanned yet.
InitScan ==
    /\ column \in [1..ImageRows -> {Black, White}]
    /\ scan_top \in 0..(ImageRows - 1)
    /\ scan_y = scan_top
    /\ line_dots = <<>>
    /\ spc = "scanning"

\* One pass of the inner loop: the pixel at y, the pixels below it, the break.
ScanRow ==
    /\ spc = "scanning"
    /\ scan_y < ScanEnd(Len(column), scan_top)
    /\ IF Pixel(column, scan_y) = White /\ has_n_black_below(column, scan_y)
         THEN /\ line_dots' = Append(line_dots, scan_y)
              /\ spc' = "done"
              /\ UNCHANGED scan_y
         ELSE /\ scan_y' = scan_y + 1
              /\ UNCHANGED <<line_dots, spc>>
    /\ UNCHANGED <<column, scan_top>>
    /\ UNCHANGED notScan

\* The range is exhausted: on to the next line.
ScanLineEnd ==
    /\ spc = "scanning"
    /\ scan_y >= ScanEnd(Len(column), scan_top)
    /\ spc' = "done"
    /\ UNCHANGED <<column, scan_top, scan_y, line_dots>>
    /\ UNCHANGED notScan

NextScan ==
    \/ ScanRow
    \/ ScanLineEnd

(***************************************************************************)
(* Claims about the scan of one line (checked under SpecScan)              *)
(***************************************************************************)
\* The rows C21 describes: inside the window of half the mixture depth (in
\* whole rows), bright, with K rows below them in the image, all dark.
C21_Interfaces ==
    {y \in 0..(Len(column) - 1) :
        /\ scan_top <= y
        /\ y < scan_top + ((Len(column) - scan_top) \div 2)
        /\ column[y + 1] = White
        /\ y + BLACK_PIXELS_REQUIRED <= Len(column) - 1
        /\ \A k \in 1..BLACK_PIXELS_REQUIRED : column[y + k + 1] = Black}

\* C21: a scan line yields at most one candidate; when the scan of the line has
\* ended it has recorded the topmost row of the search window [mixture top,
\* mixture top + 50 % of the mixture depth) that is bright with its next K
\* pixels below all dark, and nothing when there is no such row.
C21_FirstInterfacePerLine ==
    /\ Len(line_dots) <= 1
    /\ spc = "done" =>
          IF C21_Interfaces = {}
            THEN line_dots = <<>>
            ELSE /\ Len(line_dots) = 1
                 /\ line_dots[1] \in C21_Interfaces
                 /\ \A y \in C21_Interfaces : line_dots[1] <= y

C21_Witness ==
    /\ spc = "done" /\ Len(line_dots) = 1
    /\ line_dots[1] > scan_top
    /\ \E y \in scan_top..(line_dots[1] - 1) : column[y + 1] = White
    /\ line_dots[1] + BLACK_PIXELS_REQUIRED + 2 <= Len(column)
    /\ column[line_dots[1] + BLACK_PIXELS_REQUIRED + 2] = White

(***************************************************************************)
(* SV30 arithmetic: sludge_detect.calculate_sv30, calculate_metrics.py and *)
(* TestService.get_test_result, each applied once to a mixture top T, an   *)
(* image height H and an interface row Y.  Floating-point values are kept  *)
(* as exact fractions num / den; a rounded value is kept as the integer of *)
(* its last decimal place.                                                 *)
(***************************************************************************)
BEAKER_HEIGHT_MM == 214
TEST_DURATION_MIN == 35

Frac(n, d) == [num |-> n, den |-> d]
NoMetrics == [status |-> "none", pct |-> Frac(0, 1), sv30_x100 |-> 0,
              vol_x100 |-> 0, rate_x10000 |-> 0]
Raised == [NoMetrics EXCEPT !.status = "raised"]

\* round(value * scale / 1, digits) of the fraction f, as an integer count of
\* the last decimal place kept: the nearest one, either neighbour at a tie
\* (which of the two the binary value rounds to is left open).
Rounded(f, scale) ==
    LET n == IF f.den < 0 THEN -(f.num * scale) ELSE f.num * scale
        d == IF f.den < 0 THEN -f.den ELSE f.den
        q == n \div d
        r == n - q * d
    IN  IF 2 * r < d THEN {q} ELSE IF 2 * r > d THEN {q + 1} ELSE {q, q + 1}

\* px_to_mm = BEAKER_HEIGHT_MM / image_height_px, times a number of pixels.
InMm(px, h) == Frac(px * BEAKER_HEIGHT_MM, h)

RECURSIVE Gcd(_, _)
Gcd(a, b) == IF b = 0 THEN a ELSE Gcd(b, a % b)
Abs(n) == IF n < 0 THEN -n ELSE n

\* The same value in lowest terms.
Lowest(f) ==
    LET g == Gcd(Abs(f.num), Abs(f.den))
    IN  IF g = 0 THEN f ELSE Frac(f.num \div g, f.den \div g)

\* a / b for fractions, b not zero.
Over(a, b) ==
    LET x == Lowest(Frac(a.num, b.num))
        y == Lowest(Frac(b.den, a.den))
    IN  Lowest(Frac(x.num * y.num, x.den * y.den))

\* (mutant) the sludge height measured from the mixture top down to the interface
SludgeHeightPx_FromTop(h, top, y) == y - top

\* t30_sludge_height_px = image_height_px - t30_sludge_interface_y.
SludgeHeightPx(h, top, y) == h - y

\* sv30_mL_per_L = pct_of_mixture * 10, of the unrounded percentage.
Volumetric(pct) == Frac(pct.num * 10, pct.den)

Rows == 0..MaxRow
InitMet ==
    /\ image_height_px \in {MaxRow - 2, 250}
    /\ metrics_top_y \in Rows \cup {50}
    /\ interface_y \in Rows \cup {170}
    /\ met_call = "none"
    /\ met_out = NoMetrics

\* sludge_detect.calculate_sv30(mixture_top_y, sludge_y, image_height).
CalculateSv30 ==
    /\ met_call = "none"
    /\ met_call' = "calculate_sv30"
    /\ met_out' = [NoMetrics EXCEPT !.status = "ok",
                      !.pct = calculate_sv30(metrics_top_y, interface_y, image_height_px)]
    /\ UNCHANGED <<metrics_top_y, image_height_px, interface_y>>
    /\ UNCHANGED notMet

\* calculate_metrics.calculate_metrics from px_to_mm on; dividing by a mixture
\* height of 0.0 raises ZeroDivisionError.
CalculateMetrics ==
    /\ met_call = "none"
    /\ met_call' = "calculate_metrics"
    /\ LET mixture_height_px == image_height_px - metrics_top_y
           mixture_height_mm == InMm(mixture_height_px, image_height_px)
           t30_sludge_height_mm ==
               InMm(SludgeHeightPx(image_height_px, metrics_top_y, interface_y),
                    image_height_px)
           clear_liquid_height_mm ==
               InMm(interface_y - metrics_top_y, image_height_px)
           pct_of_mixture == LET q == Over(t30_sludge_height_mm, mixture_height_mm)
                       IN  Frac(q.num * 100, q.den)
           settling_rate_mm_per_min ==
               Frac(clear_liquid_height_mm.num,
                    clear_liquid_height_mm.den * TEST_DURATION_MIN)
       IN  IF mixture_height_mm.num = 0
             THEN met_out' = Raised
             ELSE \E a \in Rounded(pct_of_mixture, 100),
                     b \in Rounded(Volumetric(pct_of_mixture), 100),
                     c \in Rounded(settling_rate_mm_per_min, 10000) :
                    met_out' = [status |-> "ok", pct |-> pct_of_mixture, sv30_x100 |-> a,
                                vol_x100 |-> b, rate_x10000 |-> c]
    /\ UNCHANGED <<metrics_top_y, image_height_px, interface_y>>
    /\ UNCHANGED notMet

\* TestService.get_test_result: the percentage from the two heights in mm.
GetTestResult ==
    /\ met_call = "none"
    /\ met_call' = "get_test_result"
    /\ LET sludge_height == InMm(image_height_px - interface_y, image_height_px)
           mixture_height == InMm(image_height_px - metrics_top_y, image_height_px)
           sv30_percentage ==
               IF mixture_height.num > 0
                 THEN LET q == Over(sludge_height, mixture_height)
                      IN  Frac(q.num * 100, q.den)
                 ELSE Frac(0, 1)
       IN  \E a \in Rounded(sv30_percentage, 100) :
              met_out' = [NoMetrics EXCEPT !.status = "ok", !.pct = sv30_percentage,
                                           !.sv30_x100 = a]
    /\ UNCHANGED <<metrics_top_y, image_height_px, interface_y>>
    /\ UNCHANGED notMet

NextMet ==
    \/ CalculateSv30
    \/ CalculateMetrics
    \/ GetTestResult

(***************************************************************************)
(* Claims about the SV30 arithmetic (checked under SpecMet)                *)
(***************************************************************************)
\* C24 (as stated): whichever function computes an SV30 percentage from a
\* mixture height that is zero or negative reports an error; none returns a
\* percentage for it.
C24_NoMixtureIsAnError ==
    (met_call # "none" /\ image_height_px - metrics_top_y <= 0) =>
        met_out.status = "raised"

\* C25 (as stated): calculate_metrics reports exactly
\* sv30_percentage = (H - Y) / (H - T) * 100, sv30_volumetric = sv30_percentage * 10
\* and settling_rate = (Y - T) * ratio / duration_minutes.
C25_ExactMetrics ==
    (met_call = "calculate_metrics" /\ met_out.status = "ok") =>
        LET T == metrics_top_y
            H == image_height_px
            Y == interface_y
        IN  /\ met_out.sv30_x100 * (H - T) = 100 * 100 * (H - Y)
            /\ met_out.vol_x100 = 10 * met_out.sv30_x100
            /\ met_out.rate_x10000 * H * TEST_DURATION_MIN
                  = 10000 * (Y - T) * BEAKER_HEIGHT_MM

\* v is a whole number nearest to n / d.
C25_Nearest(v, n, d) ==
    IF d > 0 THEN 2 * (v * d - n) <= d /\ 2 * (n - v * d) <= d
    ELSE 2 * (n - v * d) <= -d /\ 2 * (v * d - n) <= -d

\* C25 (amended): calculate_metrics reports (H - Y) / (H - T) * 100 rounded to
\* two decimals, ten times the unrounded percentage rounded to two decimals,
\* and (Y - T) * ratio / 35 rounded to four decimals, with ratio = 214 / H;
\* the two SV30 values do not depend on the ratio.
C25_RoundedMetrics ==
    (met_call = "calculate_metrics" /\ met_out.status = "ok") =>
        LET T == metrics_top_y
            H == image_height_px
            Y == interface_y
        IN  /\ C25_Nearest(met_out.sv30_x100, 100 * 100 * (H - Y), H - T)
            /\ C25_Nearest(met_out.vol_x100, 100 * 1000 * (H - Y), H - T)
            /\ C25_Nearest(met_out.rate_x10000, 10000 * (Y - T) * BEAKER_HEIGHT_MM,
                            H * TEST_DURATION_MIN)

\* The example of the claim: T = 50, H = 250, Y = 170 gives 40.0 and 400.0.
C25_Witness ==
    /\ met_call = "calculate_metrics" /\ met_out.status = "ok"
    /\ metrics_top_y = 50 /\ image_height_px = 250 /\ interface_y = 170
    /\ met_out.sv30_x100 = 4000 /\ met_out.vol_x100 = 40000

(***************************************************************************)
(* Preprocessing: modules/preprocess.py (run_batch, preprocess_single) and *)
(* the step of run_full_pipeline that follows it.  The frames of a run     *)
(* come from one video and have one size.                                  *)
(***************************************************************************)
CROP_X1 == 1110
CROP_X2 == 1510
CROP_Y1 == 440
CROP_Y2 == 1215

Min(a, b) == IF a < b THEN a ELSE b
Max(a, b) == IF a > b THEN a ELSE b

\* max(0, min(CROP, limit)).
Clamp(c, limit) == Max(0, Min(c, limit))

\* preprocess_single: x2 <= x1 or y2 <= y1, after the bounds checking.
InvalidCrop(w, h) ==
    Clamp(CROP_X2, w) <= Clamp(CROP_X1, w) \/ Clamp(CROP_Y2, h) <= Clamp(CROP_Y1, h)

FrameWidths == {640, 1110, 1111, 1920}
FrameHeights == {440, 441, 480, 1080}

\* run_batch before its loop.
InitCrop ==
    /\ img_w \in FrameWidths
    /\ img_h \in FrameHeights
    /\ raw_files \in 1..MaxFiles
    /\ processed_count = 0
    /\ error_count = 0
    /\ cpc = "loop"

\* One pass of the loop of run_batch: preprocess_single raises (unreadable
\* image, invalid crop) and the error is counted, or the crop is written.
PreprocessFile ==
    /\ cpc = "loop"
    /\ raw_files > 0
    /\ raw_files' = raw_files - 1
    /\ \E readable \in BOOLEAN :
         IF ~readable \/ InvalidCrop(img_w, img_h)
           THEN /\ error_count' = error_count + 1
                /\ UNCHANGED processed_count
           ELSE /\ processed_count' = processed_count + 1
                /\ UNCHANGED error_count
    /\ UNCHANGED <<img_w, img_h, cpc>>
    /\ UNCHANGED notCrop

\* run_batch prints its summary and returns (None) to run_full_pipeline.
PreprocessReturn ==
    /\ cpc = "loop"
    /\ raw_files = 0
    /\ cpc' = "returned"
    /\ UNCHANGED <<img_w, img_h, raw_files, processed_count, error_count>>
    /\ UNCHANGED notCrop

\* run_full_pipeline: preprocess_batch() has returned; mask_batch() is called.
MaskAfterPreprocess ==
    /\ cpc = "returned"
    /\ cpc' = "mask_batch"
    /\ UNCHANGED <<img_w, img_h, raw_files, processed_count, error_count>>
    /\ UNCHANGED notCrop

NextCrop ==
    \/ PreprocessFile
    \/ PreprocessReturn
    \/ MaskAfterPreprocess

(***************************************************************************)
(* Claims about the preprocessing (checked under SpecCrop)                 *)
(***************************************************************************)
\* C26 (as stated): when the crop rectangle, clamped to the frame, is empty
\* (x2 <= x1 or y2 <= y1), the run does not go on to vessel masking.
C26_DegenerateCropStops ==
    (Min(CROP_X2, img_w) <= Min(CROP_X1, img_w)
       \/ Min(CROP_Y2, img_h) <= Min(CROP_Y1, img_h))
    => cpc # "mask_batch"

(***************************************************************************)
(* Frame extraction: modules/frame_extractor.py, extract_frames_from_video. *)
(* FRAME_INTERVAL_SEC is 10, so that int(fps * interval_sec) is at least 1 *)
(* for every frame rate of 0.1 and more.                                   *)
(***************************************************************************)
NotExtracted == [success |-> FALSE, frame_count |-> -1]

\* (mutant) the counter advances whether or not the frame was saved
CountAfterWrite_Always(n, write_success) == n + 1

\* if write_success: count += 1.
CountAfterWrite(n, write_success) == IF write_success THEN n + 1 ELSE n

\* frame_interval = int(fps * interval_sec), the frame rate in tenths of a
\* frame per second.
FrameInterval(fps_x10, interval_sec) == (fps_x10 * interval_sec) \div 10

\* Frame rates of 0.5, 1 and 2 frames per second.
FrameRates == {5, 10, 20}

\* Passes of the loop the model records; a video read at increasing positions
\* takes at most one pass per frame.  Further passes are made but leave the
\* counters and the list of files as they are.
MaxPasses == MaxVideoFrames + 1

\* The call, before it looks at the video file, for given frame intervals.
InitExtWith(intervals) ==
    /\ total_frames \in 0..MaxVideoFrames
    /\ frame_interval \in intervals
    /\ frame_number = 0
    /\ ext_count = 0
    /\ failed_count = 0
    /\ ext_written = <<>>
    /\ extracted = NotExtracted
    /\ epc = "open"

\* The call as the device is configured: at least one frame per interval.
InitExt == InitExtWith(1..MaxInterval)

\* The call for every positive frame rate and interval of the model.
InitExtAnyRate ==
    InitExtWith({FrameInterval(f, i) : f \in FrameRates, i \in 1..MaxInterval})

\* The file is missing, cannot be opened, or has no frames or frame rate:
\* (False, 0, error_msg).  Otherwise the loop starts.
OpenVideo ==
    /\ epc = "open"
    /\ \E usable \in BOOLEAN :
         IF ~usable \/ total_frames <= 0
           THEN /\ extracted' = [success |-> FALSE, frame_count |-> 0]
                /\ epc' = "returned"
           ELSE /\ epc' = "loop"
                /\ UNCHANGED extracted
    /\ UNCHANGED <<total_frames, frame_interval, frame_number, ext_count, failed_count,
                   ext_written>>
    /\ UNCHANGED notExt

\* Top of the loop: video.set(CAP_PROP_POS_FRAMES, frame_number) and a
\* video.read() that yields the frame.
ReadFrame ==
    /\ epc = "loop"
    /\ frame_number < total_frames
    /\ epc' = "write"
    /\ UNCHANGED <<total_frames, frame_interval, frame_number, ext_count, failed_count,
                   ext_written, extracted>>
    /\ UNCHANGED notExt

\* The rest of the pass: the frame is saved under the name carrying count, or
\* the write fails; then frame_number += frame_interval.
ExtractFrame ==
    /\ epc = "write"
    /\ IF Len(ext_written) + failed_count < MaxPasses
         THEN \E write_success \in BOOLEAN :
                /\ ext_written' = IF write_success
                                THEN Append(ext_written, [index |-> ext_count, frame |-> frame_number])
                                ELSE ext_written
                /\ ext_count' = CountAfterWrite(ext_count, write_success)
                /\ failed_count' = IF write_success THEN failed_count ELSE failed_count + 1
         ELSE UNCHANGED <<ext_written, ext_count, failed_count>>
    /\ frame_number' = frame_number + frame_interval
    /\ epc' = "loop"
    /\ UNCHANGED <<total_frames, frame_interval, extracted>>
    /\ UNCHANGED notExt

\* video.read() fails, at the end of the video or before it: the loop is left
\* and the result returned.
ExtractReturn ==
    /\ epc = "loop"
    /\ extracted' = IF ext_count = 0 THEN [success |-> FALSE, frame_count |-> 0]
                     ELSE [success |-> TRUE, frame_count |-> ext_count]
    /\ epc' = "returned"
    /\ UNCHANGED <<total_frames, frame_interval, frame_number, ext_count, failed_count,
                   ext_written>>
    /\ UNCHANGED notExt

NextExt ==
    \/ OpenVideo
    \/ ReadFrame
    \/ ExtractFrame
    \/ ExtractReturn

C40_ExtractionTerminates == <>(epc = "returned")

Entry(t, q) == [top |-> t, path |-> q]
LiveFolders == {"upload_raw", "results", "graphs"}

\* sv30config, on import: os.makedirs(UPLOAD_VIDEOS_FOLDER), inside
\* UPLOAD_RAW_FOLDER; the other folders it creates are empty.
AutoCreated == {Entry("upload_raw", "videos/")}

\* What a run can leave behind.
VideoFile == Entry("upload_raw", "videos/video.mp4")
Artifacts == {VideoFile, Entry("results", "sv30_metrics.json"),
              Entry("graphs", "graph.png")}
\* upload_test_data: os.path.join(results_folder, ".uploaded").
UploadMarker == Entry("results", ".uploaded")

NotArchived == [success |-> FALSE, archive_path |-> FALSE, has_data |-> FALSE]

\* os.path.exists(folder) and os.listdir(folder), for one of the live folders.
Listed(fs, folder) == {e \in fs : e.top = folder}

\* archiver.has_data_to_archive.
has_data_to_archive(fs) == \E folder \in LiveFolders : Listed(fs, folder) # {}

\* archiver.check_upload_marker: os.path.exists(archive_path/.uploaded).
check_upload_marker(folder_entries) == Entry(".", ".uploaded") \in folder_entries

\* shutil.copytree of the live folders that are not empty, into the subfolder
\* of the same name.
CopyTree(fs, folders) == {e \in fs : e.top \in folders}

\* (mutant) the originals are kept in every mode
Cleaned_Never(fs) == fs

\* Clean up original folders (only in production mode): rmtree and makedirs.
Cleaned(fs) == IF ~DEV_MODE THEN {} ELSE fs

NoUploads == [attempted |-> {}, failed |-> {}]

\* upload_test_data: successful_uploads == total_uploads.
AllUploaded(summary) ==
    Cardinality(summary.attempted \ summary.failed) = Cardinality(summary.attempted)

\* A device before its first run: nothing on disk.
InitArc ==
    /\ DEV_MODE \in BOOLEAN
    /\ live = {}
    /\ archive = {}
    /\ prior = {}
    /\ archived = NotArchived
    /\ warning_needed = FALSE
    /\ warning_sent = FALSE
    /\ marker_written = FALSE
    /\ uploads = NoUploads
    /\ arc_runs = 0
    /\ apc = "import"

\* main.py starts: importing sv30config creates the folders.
ImportConfig ==
    /\ apc = "import"
    /\ live' = live \cup AutoCreated
    /\ apc' = "archive"
    /\ UNCHANGED <<DEV_MODE, archive, prior, archived, warning_needed,
                   warning_sent, marker_written, uploads, arc_runs>>
    /\ UNCHANGED notArc

\* archiver.archive_old_data.  An exception while copying leaves some of the
\* folders copied and returns (False, archive_path, True).
ArchiveOldData ==
    /\ apc = "archive"
    /\ prior' = live
    /\ IF ~has_data_to_archive(live)
         THEN /\ archived' = [success |-> TRUE, archive_path |-> FALSE,
                               has_data |-> FALSE]
              /\ UNCHANGED <<live, archive>>
         ELSE \E copied \in SUBSET LiveFolders :
                /\ archive' = CopyTree(live, copied)
                /\ IF copied = LiveFolders
                     THEN /\ archived' = [success |-> TRUE, archive_path |-> TRUE,
                                           has_data |-> TRUE]
                          /\ live' = Cleaned(live)
                     ELSE /\ archived' = [success |-> FALSE, archive_path |-> TRUE,
                                           has_data |-> TRUE]
                          /\ UNCHANGED live
    /\ apc' = "check"
    /\ UNCHANGED <<DEV_MODE, warning_needed, warning_sent, marker_written, uploads,
                   arc_runs>>
    /\ UNCHANGED notArc

\* archiver.check_previous_upload_status(archive_path): its 'warning_needed'.
check_previous_upload_status(archive_entries) ==
    LET uploaded == check_upload_marker(archive_entries)
        has_video == VideoFile \in archive_entries
        files_pending == IF uploaded THEN {}
                         ELSE (IF has_video THEN {"video"} ELSE {})
                              \cup {"results", "graphs"}
    IN  ~uploaded /\ files_pending # {}

\* run_full_pipeline: if had_data, the check of the previous upload; the
\* warning goes out when SOCKETIO_ENABLED and connect_socketio gave a client.
CheckPreviousUploadStatus ==
    /\ apc = "check"
    /\ warning_needed' = IF archived.has_data
                            THEN check_previous_upload_status(archive)
                            ELSE FALSE
    /\ \E temp_client \in BOOLEAN : warning_sent' = (warning_needed' /\ temp_client)
    /\ apc' = "run"
    /\ UNCHANGED <<DEV_MODE, live, archive, prior, archived, marker_written, uploads,
                   arc_runs>>
    /\ UNCHANGED notArc

\* The rest of the run up to the upload: it writes some or all of its
\* artifacts into the live folders.
RunWritesArtifacts ==
    /\ apc = "run"
    /\ \E produced \in SUBSET Artifacts : live' = live \cup produced
    /\ marker_written' = FALSE
    /\ uploads' = NoUploads
    /\ apc' = "upload"
    /\ UNCHANGED <<DEV_MODE, archive, prior, archived, warning_needed, warning_sent,
                   arc_runs>>
    /\ UNCHANGED notArc

\* aws_uploader.upload_test_data: the artifacts that exist and that the
\* AWS_UPLOAD_* flags select are uploaded, each with its own outcome; the
\* marker is written when the successes equal the total (and the write itself
\* succeeds: its errors are passed over).
UploadTestData ==
    /\ apc = "upload"
    /\ \E attempted \in SUBSET (live \cap Artifacts) :
         \E failed \in SUBSET attempted, marker_ok \in BOOLEAN :
           LET summary == [attempted |-> attempted, failed |-> failed]
           IN  /\ uploads' = summary
               /\ marker_written' = (AllUploaded(summary) /\ marker_ok)
               /\ live' = IF marker_written' THEN live \cup {UploadMarker} ELSE live
    /\ apc' = "done"
    /\ UNCHANGED <<DEV_MODE, archive, prior, archived, warning_needed, warning_sent,
                   arc_runs>>
    /\ UNCHANGED notArc

\* The next run of main.py on the same device.
NextRun ==
    /\ apc = "done"
    /\ arc_runs < MaxArcRuns
    /\ arc_runs' = arc_runs + 1
    /\ archive' = {}
    /\ prior' = {}
    /\ archived' = NotArchived
    /\ warning_needed' = FALSE
    /\ warning_sent' = FALSE
    /\ apc' = "import"
    /\ UNCHANGED <<DEV_MODE, live, marker_written, uploads>>
    /\ UNCHANGED notArc

NextArc ==
    \/ ImportConfig
    \/ ArchiveOldData
    \/ CheckPreviousUploadStatus
    \/ RunWritesArtifacts
    \/ UploadTestData
    \/ NextRun

(***************************************************************************)
(* Claims about the archiving (checked under SpecArc)                      *)
(***************************************************************************)
\* What a run leaves in the live folders, the upload marker included; the
\* folders sv30config creates are no artifact of a run.
C28_OfARun == Artifacts \cup {UploadMarker}

\* C28: once the archive check of a run with archived data has been made, the
\* delivery-pending warning is raised if and only if the upload marker of the
\* previous run is absent from the archive: a marker the previous upload wrote
\* is found and no warning is raised.
C28_WarningIffMarkerAbsent ==
    (apc = "run" /\ archived.has_data) =>
        (warning_needed <=> UploadMarker \notin archive)

C30_FreshDeviceNoArchive ==
    (apc \in {"check", "run"} /\ prior \cap C28_OfARun = {}) =>
        /\ ~archived.archive_path
        /\ ~archived.has_data
        /\ ~warning_needed /\ ~warning_sent

\* C39: the upload marker is written only when every artifact selected for
\* upload was uploaded; with a failed upload, or with nothing uploaded at all,
\* no marker is written.
C39_MarkerOnlyAfterUploads ==
    (apc = "done" /\ marker_written) =>
        /\ uploads.failed = {}
        /\ uploads.attempted # {}

(***************************************************************************)
(* Backend sender: src/src/services/backend_client.py.  send_log lists, in *)
(* the order of the code, the local saves and the network operations made  *)
(* for each item: "save", "connect" (sio.connect) and "emit".              *)
(***************************************************************************)
Did(n, e) == [item |-> n, ev |-> e]

InitSend ==
    /\ sio_connected = FALSE
    /\ backend_up \in BOOLEAN
    /\ handed = <<>>
    /\ send_log = <<>>

\* send_sludge_data: save locally, connect if need be, emit.  The connection
\* attempt raises when the backend is down and may still be pending after the
\* wait when it is up; the emit may fail and marks the sender disconnected.
SendSludgeData ==
    /\ Len(handed) < MaxSends
    /\ handed' = Append(handed, "sludge")
    /\ LET n == Len(handed) + 1
           stored == Append(send_log, Did(n, "save"))
           tried == IF sio_connected THEN stored ELSE Append(stored, Did(n, "connect"))
       IN  \E established, emitted \in BOOLEAN :
             LET is_connected == sio_connected \/ (backend_up /\ established)
             IN  IF is_connected
                   THEN /\ send_log' = Append(tried, Did(n, "emit"))
                        /\ sio_connected' = (backend_up /\ emitted)
                   ELSE /\ send_log' = tried
                        /\ sio_connected' = FALSE
    /\ UNCHANGED backend_up
    /\ UNCHANGED notSend

\* send_height_update: if not connected, connect() first and return False when
\* it fails; then save locally (the emit is commented out) and return True.
SendHeightUpdate ==
    /\ Len(handed) < MaxSends
    /\ handed' = Append(handed, "height")
    /\ LET n == Len(handed) + 1
       IN  IF sio_connected
             THEN send_log' = Append(send_log, Did(n, "save"))
             ELSE IF backend_up
                    THEN send_log' = send_log \o <<Did(n, "connect"), Did(n, "save")>>
                    ELSE send_log' = Append(send_log, Did(n, "connect"))
    /\ UNCHANGED <<sio_connected, backend_up>>
    /\ UNCHANGED notSend

\* _on_connect: a connection that was initiated completes.
OnConnect ==
    /\ backend_up /\ ~sio_connected
    /\ \E i \in 1..Len(send_log) : send_log[i].ev = "connect"
    /\ sio_connected' = TRUE
    /\ UNCHANGED <<backend_up, handed, send_log>>
    /\ UNCHANGED notSend

\* The backend goes away (_on_disconnect) or comes back.
BackendChanges ==
    /\ backend_up' = ~backend_up
    /\ sio_connected' = (sio_connected /\ backend_up')
    /\ UNCHANGED <<handed, send_log>>
    /\ UNCHANGED notSend

NextSend ==
    \/ SendSludgeData
    \/ SendHeightUpdate
    \/ OnConnect
    \/ BackendChanges

(***************************************************************************)
(* Claims about the backend sender (checked under SpecSend)                *)
(***************************************************************************)
\* C32: every item handed to the sender, final sludge data or height update,
\* has been saved locally, and nothing was done on the network for it before
\* the save, whether or not the backend can be reached.
C32_SavedBeforeNetwork ==
    \A n \in 1..Len(handed) :
        \E i \in 1..Len(send_log) :
            /\ send_log[i] = Did(n, "save")
            /\ \A j \in 1..(i - 1) : send_log[j].item # n

(***************************************************************************)
(* The t=30 result: SV30DataProvider (src/src/services/sv30_data_provider) *)
(* and the file results/final_metrics.json it reads, which the metrics     *)
(* calculation of a run writes and the archiver of the next run may clean. *)
(***************************************************************************)
InitProv ==
    /\ cleans_results \in BOOLEAN
    /\ current_test = 0
    /\ results_owner = 0
    /\ sub_pc = "none"
    /\ t30_source = <<>>
    /\ prov_pc = "idle"

\* generate_t0_data: a new test id, and main.py started as a subprocess; it
\* raises when the subprocess did not start.
ProviderT0 ==
    /\ prov_pc = "idle"
    /\ current_test < MaxTests
    /\ \E started_ok \in BOOLEAN :
         IF started_ok
           THEN /\ current_test' = current_test + 1
                /\ sub_pc' = "archive"
                /\ prov_pc' = "running"
           ELSE UNCHANGED <<current_test, sub_pc, prov_pc>>
    /\ UNCHANGED <<cleans_results, results_owner, t30_source>>
    /\ UNCHANGED notProv

\* The subprocess: archive_old_data; the live results folder is emptied only
\* when the archive succeeded outside DEV_MODE.
SubprocessArchives ==
    /\ sub_pc = "archive"
    /\ \E copied \in BOOLEAN :
         results_owner' = IF cleans_results /\ copied THEN 0 ELSE results_owner
    /\ sub_pc' = "analysis"
    /\ UNCHANGED <<cleans_results, current_test, t30_source, prov_pc>>
    /\ UNCHANGED notProv

\* calculate_metrics on the detections of the current run writes
\* results/final_metrics.json, or the run ends without it.
SubprocessResults ==
    /\ sub_pc = "analysis"
    /\ \E written \in BOOLEAN :
         results_owner' = IF written THEN current_test ELSE results_owner
    /\ sub_pc' = "exited"
    /\ UNCHANGED <<cleans_results, current_test, t30_source, prov_pc>>
    /\ UNCHANGED notProv

\* generate_t30_data: as soon as results/final_metrics.json exists it is
\* loaded and returned; after the maximum wait without it, it raises.
ProviderT30 ==
    /\ prov_pc = "running"
    /\ results_owner = 0 => sub_pc = "exited"
    /\ t30_source' = Append(t30_source, results_owner)
    /\ prov_pc' = "idle"
    /\ UNCHANGED <<cleans_results, current_test, results_owner, sub_pc>>
    /\ UNCHANGED notProv

NextProv ==
    \/ ProviderT0
    \/ SubprocessArchives
    \/ SubprocessResults
    \/ ProviderT30

(***************************************************************************)
(* Claims about the t=30 result (checked under SpecProv)                   *)
(***************************************************************************)
\* C33: the t=30 result returned for a test was read from the results file of
\* the run that test started, never from a file an earlier run left behind.
C33_OwnResultsOnly ==
    \A k \in 1..Len(t30_source) : t30_source[k] \in {0, k}

(***************************************************************************)
(* Specifications                                                          *)
(***************************************************************************)
PipeIdle == cfg = [f \in ConfigFlags |-> FALSE] /\ InitPipe
RecIdle == CAM1_TYPE = "USB" /\ InitRec
HmiIdle == InitHmi
ApiIdle == InitApi
DetIdle == mixture_top_y = 0 /\ InitDet
ScanIdle == column = [y \in 1..ImageRows |-> Black] /\ scan_top = 0 /\ InitScan
MetIdle == image_height_px = 250 /\ metrics_top_y = 50 /\ interface_y = 170 /\ InitMet
CropIdle == img_w = 1920 /\ img_h = 1080 /\ raw_files = 1 /\ InitCrop
ExtIdle == total_frames = 0 /\ frame_interval = 1 /\ InitExt
ArcIdle == DEV_MODE = TRUE /\ InitArc
SendIdle == backend_up = FALSE /\ InitSend
ProvIdle == cleans_results = FALSE /\ InitProv

StartPipe == InitPipe /\ RecIdle /\ HmiIdle /\ ApiIdle /\ DetIdle /\ ScanIdle /\ MetIdle /\ CropIdle /\ ExtIdle
      /\ ArcIdle /\ SendIdle /\ ProvIdle
StartRec == InitRec /\ PipeIdle /\ HmiIdle /\ ApiIdle /\ DetIdle /\ ScanIdle /\ MetIdle /\ CropIdle /\ ExtIdle
      /\ ArcIdle /\ SendIdle /\ ProvIdle
StartHmi ==
    /\ InitPipe /\ (\A f \in ConfigFlags \ {"RUN_ONCE_PER_BOOT"} : ~cfg[f])
    /\ RecIdle
    /\ InitHmi
    /\ ApiIdle
    /\ DetIdle
    /\ ScanIdle
    /\ MetIdle
    /\ CropIdle
    /\ ExtIdle
    /\ ArcIdle /\ SendIdle /\ ProvIdle
StartApi == PipeIdle /\ RecIdle /\ HmiIdle /\ InitApi /\ DetIdle /\ ScanIdle /\ MetIdle /\ CropIdle /\ ExtIdle
      /\ ArcIdle /\ SendIdle /\ ProvIdle
StartDet == PipeIdle /\ RecIdle /\ HmiIdle /\ ApiIdle /\ InitDet /\ ScanIdle /\ MetIdle /\ CropIdle /\ ExtIdle
      /\ ArcIdle /\ SendIdle /\ ProvIdle
StartScan == PipeIdle /\ RecIdle /\ HmiIdle /\ ApiIdle /\ DetIdle /\ InitScan /\ MetIdle /\ CropIdle /\ ExtIdle
      /\ ArcIdle /\ SendIdle /\ ProvIdle
StartMet == PipeIdle /\ RecIdle /\ HmiIdle /\ ApiIdle /\ DetIdle /\ ScanIdle /\ InitMet /\ CropIdle /\ ExtIdle
      /\ ArcIdle /\ SendIdle /\ ProvIdle
StartCrop ==
    PipeIdle /\ RecIdle /\ HmiIdle /\ ApiIdle /\ DetIdle /\ ScanIdle /\ MetIdle /\ InitCrop
      /\ ExtIdle /\ ArcIdle /\ SendIdle /\ ProvIdle
StartExt ==
    PipeIdle /\ RecIdle /\ HmiIdle /\ ApiIdle /\ DetIdle /\ ScanIdle /\ MetIdle /\ CropIdle
      /\ InitExt /\ ArcIdle /\ SendIdle /\ ProvIdle
StartExtAnyRate ==
    PipeIdle /\ RecIdle /\ HmiIdle /\ ApiIdle /\ DetIdle /\ ScanIdle /\ MetIdle /\ CropIdle
      /\ InitExtAnyRate /\ ArcIdle /\ SendIdle /\ ProvIdle
StartArc ==
    PipeIdle /\ RecIdle /\ HmiIdle /\ ApiIdle /\ DetIdle /\ ScanIdle /\ MetIdle /\ CropIdle
      /\ ExtIdle /\ InitArc /\ SendIdle /\ ProvIdle
StartSend ==
    PipeIdle /\ RecIdle /\ HmiIdle /\ ApiIdle /\ DetIdle /\ ScanIdle /\ MetIdle /\ CropIdle
      /\ ExtIdle /\ ArcIdle /\ InitSend /\ ProvIdle
StartProv ==
    PipeIdle /\ RecIdle /\ HmiIdle /\ ApiIdle /\ DetIdle /\ ScanIdle /\ MetIdle /\ CropIdle
      /\ ExtIdle /\ ArcIdle /\ SendIdle /\ InitProv

SpecPipe == StartPipe /\ [][NextPipe]_vars
SpecRec == StartRec /\ [][NextRec]_vars
SpecHmi == StartHmi /\ [][NextHmi]_vars
SpecRecLive == SpecRec /\ WF_vars(RecorderStep)
SpecApi == StartApi /\ [][NextApi]_vars
SpecDet == StartDet /\ [][NextDet]_vars
SpecScan == StartScan /\ [][NextScan]_vars
SpecMet == StartMet /\ [][NextMet]_vars
SpecCrop == StartCrop /\ [][NextCrop]_vars
SpecExt == StartExt /\ [][NextExt]_vars
\* The extraction keeps running: it opens the video, its read comes back
\* (with a frame, or failing), and it saves the frame it has read.
SpecExtLive ==
    /\ StartExtAnyRate /\ [][NextExt]_vars
    /\ WF_vars(OpenVideo) /\ WF_vars(ReadFrame \/ ExtractReturn) /\ WF_vars(ExtractFrame)
SpecArc == StartArc /\ [][NextArc]_vars
SpecSend == StartSend /\ [][NextSend]_vars
SpecProv == StartProv /\ [][NextProv]_vars
\* The clock advances and the monitor thread keeps running its loop.
SpecApiLive == SpecApi /\ WF_vars(Tick) /\ WF_vars(MonitorCheck) /\ WF_vars(MonitorTest)
====
